---- MODULE Spec2Model ----
(***************************************************************************)
(* State-machine model of agent-maestro's core (src-tauri):                *)
(*   - BeadsCache  (cache/beads_cache.rs): the snapshot store, its full    *)
(*     refresh, incremental event patching and disk persistence;           *)
(*   - ActivityStream (bd/activity.rs): the supervisor of the              *)
(*     `bd activity --follow --json` child process.                        *)
(*   - the tokio RwLock around the store (state.rs, commands/) and the     *)
(*     steps of a full refresh under it;                                   *)
(*   - DagBuilder (cache/dag.rs): the graph built from a snapshot, its     *)
(*     gate nodes, node kinds and session enrichment;                      *)
(*   - the store's read operations (get_dag, search_issues,                *)
(*     get_pending_gates, get_stats);                                      *)
(*   - BdClient (bd/client.rs): bd commands and the write permit;          *)
(*   - the background health monitor and the health checker's view of     *)
(*     the cache (lib.rs, health.rs);                                      *)
(*   - parse_event as a function of the line (bd/activity.rs);             *)
(*   - the child processes of the supervisor (bd/activity.rs);             *)
(*   - AppState and workspace switches (state.rs, commands/);              *)
(*   - DaemonManager::ensure_running (bd/daemon.rs).                       *)
(* The parts share the module's variables; each has its own specification  *)
(* (SpecCache, SpecStream, SpecRestart, SpecCancel, SpecLock, SpecDag,      *)
(* SpecDagGates, SpecDagLabels, SpecGetDag, SpecEnrich, SpecReads,          *)
(* SpecClient, SpecHealth, SpecHealthCache, SpecDecode, SpecChildren,       *)
(* SpecApp, SpecDaemon).                                                   *)
(***************************************************************************)
EXTENDS Integers, Sequences, FiniteSets, TLC

VARIABLES
    \* ---- BeadsCache (cache/beads_cache.rs:27-33) and its environment ----
    issues,          \* HashMap<String, Issue>: a function from its keys
    gates,           \* HashMap<String, Gate>
    epics,           \* HashMap<String, EpicStatus>
    last_full_sync,  \* Instant of the last full sync (seconds)
    file,            \* the content of cache_file_path on disk
    now,             \* the clock (Instant::now / Utc::now), in seconds
    ret,             \* the operation that ran last and what it returned
    given,           \* inputs of that operation when it is a successful full_refresh
    applied,         \* history: the event of that operation when it is an apply_event
    \* ---- ActivityStream (bd/activity.rs) and its environment ----
    pc,                  \* position of the supervisor task
    backoff,             \* start(): let mut backoff
    consecutive_errors,  \* start(): let mut consecutive_errors
    parse_errors,        \* run_stream(): let mut parse_errors
    child,               \* the child process of the current run cycle
    result,              \* what the last finished run_stream returned
    queue,               \* events in the unbounded channel, not yet received
    received,            \* events the consumer has taken from the channel
    rx_open,             \* the channel's receiver still exists
    cycles,              \* history: number of run cycles (run_stream calls) started
    delays,              \* history: the delays slept, in order
    bad_run,             \* history: undecodable non-blank lines read since the last
                         \*          forwarded event of this run cycle
    read_log,            \* history: the decodable stdout lines read, in read order
    handle,              \* the JoinHandle start() returned: held, dropped or aborted
    \* ---- persistence across restarts ----
    durable,         \* history: inputs of the last successful full_refresh, and
                     \*          whether events changed the maps since
    \* ---- Arc<RwLock<BeadsCache>> (beads_cache.rs:51, state.rs:18) ----
    lock,            \* the RwLock: its writer and the set of its readers
    tpc,             \* position of each task that uses the store
    seen,            \* what each reading task has read under its guard
    \* ---- DagBuilder (cache/dag.rs:48-52) ----
    builder,         \* the builder's issues, gates and epics maps
    graph,           \* the DagGraph the last build_dag returned, with its argument
    enriched,        \* the last enrich_with_sessions: its arguments and its result
    \* ---- BdClient (bd/client.rs:16-25) and the bd commands it runs ----
    permits,         \* the permits write_semaphore has left
    cpc,             \* where each task using the client (or a clone) is
    procs,           \* the bd processes that are executing
    \* ---- background health monitoring task (lib.rs:63-95) ----
    last_known_health, \* the HealthStatus the monitor emitted last
    checks,          \* the checks made so far: the status observed, and whether
                     \* a HealthChanged event was emitted for it
    \* ---- the bd processes spawned by run_stream (bd/activity.rs:128-135) ----
    alive,           \* the run cycles whose child process is alive
    \* ---- AppState (state.rs:13-22) and the commands that use it ----
    bd_client,       \* workspace of the client inside AppState.bd_client
    checker_client,  \* workspace of the client the HealthChecker was given
    client_lock,     \* the RwLock around bd_client: its writer and its readers
    apc,             \* position of each task that uses AppState
    running,         \* the bd commands in flight: who runs them, and where
    switched,        \* history: the path of the last switch_workspace that
                     \* returned success, and the commands started since
    \* ---- DaemonManager::ensure_running (bd/daemon.rs:91-137) ----
    dm               \* the call: its position, commands issued, polls, result

cacheVars  == <<issues, gates, epics, last_full_sync, file, now, ret, given>>
streamVars == <<pc, backoff, consecutive_errors, parse_errors, child, result,
                queue, received, rx_open, cycles, delays, bad_run, read_log>>
lockVars   == <<lock, tpc, seen>>
dagVars    == <<builder, graph>>
clientVars == <<permits, cpc, procs>>
healthVars == <<last_known_health, checks>>
childVars  == <<alive>>
appVars    == <<bd_client, checker_client, client_lock, apc, running, switched>>
daemonVars == <<dm>>
vars == <<cacheVars, streamVars, handle, applied, durable, lockVars, dagVars, enriched,
         clientVars, healthVars,
                   childVars, appVars, daemonVars>>

\* what an operation of one part leaves alone
nonCacheVars  == <<streamVars, handle, applied, durable, lockVars, dagVars, enriched,
                   clientVars, healthVars,
                   childVars, appVars, daemonVars>>
nonStreamVars == <<cacheVars, handle, applied, durable, lockVars, dagVars, enriched,
                   clientVars, healthVars,
                   childVars, appVars, daemonVars>>

-----------------------------------------------------------------------------
(* Generic helpers                                                         *)

\* Option::None for the Option<String> fields
None == "None"

EmptyMap == [x \in {} |-> x]

Range(f) == {f[x] : x \in DOMAIN f}

SeqRange(s) == {s[i] : i \in 1..Len(s)}

Min(a, b) == IF a < b THEN a ELSE b

\* strings whose characters matter are sequences of characters
UpperCase == <<"A", "B", "C", "D", "E", "F", "G", "H", "I", "J", "K", "L", "M",
               "N", "O", "P", "Q", "R", "S", "T", "U", "V", "W", "X", "Y", "Z">>
LowerCase == <<"a", "b", "c", "d", "e", "f", "g", "h", "i", "j", "k", "l", "m",
               "n", "o", "p", "q", "r", "s", "t", "u", "v", "w", "x", "y", "z">>

\* char::to_lowercase, for the characters of ASCII
ToLowerChar(c) ==
    IF \E i \in DOMAIN UpperCase : UpperCase[i] = c
    THEN LowerCase[CHOOSE i \in DOMAIN UpperCase : UpperCase[i] = c]
    ELSE c

\* str::to_lowercase
ToLowercase(s) == [i \in 1..Len(s) |-> ToLowerChar(s[i])]

\* str::contains: t occurs in s as a substring
Contains(s, t) == \E i \in 0..(Len(s) - Len(t)) : SubSeq(s, i + 1, i + Len(t)) = t

\* HashMap::insert
Insert(m, k, v) == [x \in (DOMAIN m) \cup {k} |-> IF x = k THEN v ELSE m[x]]

\* HashMap::remove
Remove(m, k) == [x \in (DOMAIN m) \ {k} |-> m[x]]

\* iter.map(|e| (e.id.clone(), e)).collect::<HashMap<_, _>>():
\* inserts in order, a later element replaces an earlier one with the same id
RECURSIVE CollectById(_)
CollectById(s) ==
    IF s = <<>> THEN EmptyMap
    ELSE Insert(CollectById(SubSeq(s, 1, Len(s) - 1)), s[Len(s)].id, s[Len(s)])

-----------------------------------------------------------------------------
(* Entities (bd/types.rs)                                                  *)

IssueIds == {"T1", "T2"}
Titles   == {"a", "b"}
Statuses == {"open"}
GateIds  == {"G1"}
GateStatuses == {"pending"}
EpicIds  == {"E1"}

\* bd/types.rs Issue: the fields the store's operations read; two versions of
\* T1 (titles a and b) and one of T2
Issue == {i \in [id : IssueIds, title : Titles, status : Statuses] :
             i.id = "T1" \/ i.title = "a"}

\* bd/types.rs Gate
Gate == [id : GateIds, issue_id : {"T1"}, gate_type : {"compile"}, status : GateStatuses]

\* bd/types.rs EpicStatus
EpicStatus == [id : EpicIds, title : {"epic"}, total : {0}]

\* serde Serialize of an Issue / Gate / EpicStatus: a JSON object, field by field
IssueToValue(i) == [id |-> i.id, title |-> i.title, status |-> i.status]
GateToValue(g)  == [id |-> g.id, issue_id |-> g.issue_id, gate_type |-> g.gate_type,
                    status |-> g.status]
EpicToValue(e)  == [id |-> e.id, title |-> e.title, total |-> e.total]

\* serde_json::from_value::<Issue>: id, title and status are required
IssueDecodes(v) == {"id", "title", "status"} \subseteq DOMAIN v
IssueFromValue(v) == [id |-> v.id, title |-> v.title, status |-> v.status]

\* serde_json::from_value::<Gate>: id, issue_id, gate_type and status are required
GateDecodes(v) == {"id", "issue_id", "gate_type", "status"} \subseteq DOMAIN v
GateFromValue(v) == [id |-> v.id, issue_id |-> v.issue_id, gate_type |-> v.gate_type,
                     status |-> v.status]

EpicFromValue(v) == [id |-> v.id, title |-> v.title, total |-> v.total]

\* JSON values an event may embed under "issue" / "gate": every item, and
\* objects that lack required fields
IssuePayloads == {IssueToValue(i) : i \in Issue} \cup {[id |-> i] : i \in IssueIds}
GatePayloads  == {GateToValue(g) : g \in Gate} \cup {[id |-> g] : g \in GateIds}

Timestamp == "2024-01-01T00:00:00Z"

\* bd/types.rs ActivityEvent; extra is the flattened rest of the JSON object
IssueEvents ==
    [event_type : {"issue.created", "issue.updated", "issue.deleted"},
     issue_id   : {None} \cup IssueIds,
     gate_id    : {None},
     timestamp  : {Timestamp},
     extra      : {EmptyMap} \cup {[issue |-> p] : p \in IssuePayloads}]

GateEvents ==
    [event_type : {"gate.created", "gate.updated", "gate.deleted"},
     issue_id   : {None},
     gate_id    : {None} \cup GateIds,
     timestamp  : {Timestamp},
     extra      : {EmptyMap} \cup {[gate |-> p] : p \in GatePayloads}]

OtherEvents ==
    [event_type : {"daemon_started"},
     issue_id   : {None},
     gate_id    : {None},
     timestamp  : {Timestamp},
     extra      : {EmptyMap}]

NoEvent == [event_type |-> None, issue_id |-> None, gate_id |-> None,
            timestamp |-> Timestamp, extra |-> EmptyMap]

ActivityEvent == IssueEvents \cup GateEvents \cup OtherEvents

-----------------------------------------------------------------------------
(* BeadsCache                                                              *)

STALE_DURATION == 30

\* load_from_disk: chrono::Duration::seconds(60)
LOAD_MAX_AGE == 60

\* number of clock advances explored
MaxTicks == 1

TickStep == STALE_DURATION + 1

\* the Vec arguments of full_refresh
IssueLists == {<<>>} \cup {<<a>> : a \in Issue} \cup {<<a, b>> : a \in Issue, b \in Issue}
GateLists  == {<<>>} \cup {<<g>> : g \in Gate}
EpicLists  == {<<>>} \cup {<<e>> : e \in EpicStatus}

\* what the file system does with one save_to_disk
\* create_dir_all or opening the file fails (the old file stays), or the
\* write fails after the file was truncated (a partial file stays)
DiskOutcomes == {"ok", "fails_before_write", "fails_partway"}

NoFile      == [kind |-> "absent", issues |-> EmptyMap, gates |-> EmptyMap,
                epics |-> EmptyMap, last_full_sync |-> 0]
PartialFile == [kind |-> "partial", issues |-> EmptyMap, gates |-> EmptyMap,
                epics |-> EmptyMap, last_full_sync |-> 0]

\* SerializedCache written by serde_json::to_string_pretty
SerializedCache(i, g, e, t) ==
    [kind |-> "snapshot",
     issues |-> [k \in DOMAIN i |-> IssueToValue(i[k])],
     gates  |-> [k \in DOMAIN g |-> GateToValue(g[k])],
     epics  |-> [k \in DOMAIN e |-> EpicToValue(e[k])],
     last_full_sync |-> t]

\* save_to_disk applied to the maps (i, g, e) under file-system outcome o:
\* the file it leaves and whether it returned Ok
SaveToDisk(i, g, e, o) ==
    CASE o = "ok"                  -> [file |-> SerializedCache(i, g, e, now), ok |-> TRUE]
      [] o = "fails_before_write"  -> [file |-> file, ok |-> FALSE]
      [] o = "fails_partway"       -> [file |-> PartialFile, ok |-> FALSE]

\* a load that already rejects a file exactly 60 s old
LoadFromDiskOkBelowMaxAge ==
    /\ file.kind = "snapshot"
    /\ file.last_full_sync + LOAD_MAX_AGE > now

\* load_from_disk: Ok only for a readable, well-formed file at most 60 s old
LoadFromDiskOk ==
    /\ file.kind = "snapshot"
    /\ ~(file.last_full_sync + LOAD_MAX_AGE < now)

\* a staleness check that already fires at the threshold
IsStaleAtThreshold == now - last_full_sync >= STALE_DURATION

\* is_stale
IsStale == now - last_full_sync > STALE_DURATION

\* get_issue
GetIssue(id) == IF id \in DOMAIN issues THEN {issues[id]} ELSE {}

\* list_issues
ListIssues == Range(issues)

NoGiven == [issues |-> <<>>, gates |-> <<>>, epics |-> <<>>]

\* BeadsCache::new: rehydrate from the file, or start empty
New ==
    /\ IF LoadFromDiskOk
       THEN /\ issues' = [k \in DOMAIN file.issues |-> IssueFromValue(file.issues[k])]
            /\ gates'  = [k \in DOMAIN file.gates |-> GateFromValue(file.gates[k])]
            /\ epics'  = [k \in DOMAIN file.epics |-> EpicFromValue(file.epics[k])]
       ELSE /\ issues' = EmptyMap
            /\ gates'  = EmptyMap
            /\ epics'  = EmptyMap
    /\ last_full_sync' = now
    /\ ret' = [op |-> "new", ok |-> TRUE]
    /\ given' = NoGiven
    /\ UNCHANGED <<file, now>>

\* a full refresh that adds the new entries to the old map
ReplaceKeepingOld(old, new) ==
    [k \in (DOMAIN old) \cup (DOMAIN new) |-> IF k \in DOMAIN new THEN new[k] ELSE old[k]]

\* full_refresh: self.issues = issues_map (likewise gates, epics)
Replace(old, new) == new

\* BeadsCache::full_refresh(items, gs, es), the file system answering o
FullRefresh(items, gs, es, o) ==
    LET issues_map == CollectById(items)
        gates_map  == CollectById(gs)
        epics_map  == CollectById(es)
        saved      == SaveToDisk(issues_map, gates_map, epics_map, o)
    IN  /\ issues' = Replace(issues, issues_map)
        /\ gates'  = Replace(gates, gates_map)
        /\ epics'  = Replace(epics, epics_map)
        /\ last_full_sync' = now
        /\ file' = saved.file
        /\ ret' = [op |-> "full_refresh", ok |-> saved.ok]
        /\ given' = IF saved.ok
                    THEN [issues |-> items, gates |-> gs, epics |-> es]
                    ELSE NoGiven
        /\ UNCHANGED now

\* an upsert that drops the entry when the payload is missing or undecodable
UpsertIssueOrDrop(m, ev) ==
    IF ev.issue_id = None THEN m
    ELSE IF "issue" \in DOMAIN ev.extra /\ IssueDecodes(ev.extra["issue"])
    THEN Insert(m, ev.issue_id, IssueFromValue(ev.extra["issue"]))
    ELSE Remove(m, ev.issue_id)

\* apply_event, "issue.created" | "issue.updated"
UpsertIssue(m, ev) ==
    IF /\ ev.issue_id # None
       /\ "issue" \in DOMAIN ev.extra
       /\ IssueDecodes(ev.extra["issue"])
    THEN Insert(m, ev.issue_id, IssueFromValue(ev.extra["issue"]))
    ELSE m

\* a deletion that removes nothing
DeleteIssueKeeping(m, ev) == m

\* apply_event, "issue.deleted"
DeleteIssue(m, ev) == IF ev.issue_id # None THEN Remove(m, ev.issue_id) ELSE m

\* apply_event, "gate.created" | "gate.updated"
UpsertGate(m, ev) ==
    IF /\ ev.gate_id # None
       /\ "gate" \in DOMAIN ev.extra
       /\ GateDecodes(ev.extra["gate"])
    THEN Insert(m, ev.gate_id, GateFromValue(ev.extra["gate"]))
    ELSE m

\* apply_event, "gate.deleted"
DeleteGate(m, ev) == IF ev.gate_id # None THEN Remove(m, ev.gate_id) ELSE m

\* apply_event: the match on event.event_type
ApplyEventMaps(ev) ==
    /\ issues' =
         CASE ev.event_type \in {"issue.created", "issue.updated"} -> UpsertIssue(issues, ev)
           [] ev.event_type = "issue.deleted" -> DeleteIssue(issues, ev)
           [] OTHER -> issues
    /\ gates' =
         CASE ev.event_type \in {"gate.created", "gate.updated"} -> UpsertGate(gates, ev)
           [] ev.event_type = "gate.deleted" -> DeleteGate(gates, ev)
           [] OTHER -> gates

\* an apply_event that also marks the store as freshly synced
ApplyEventTouchingSync(ev) ==
    /\ ApplyEventMaps(ev)
    /\ last_full_sync' = now
    /\ ret' = [op |-> "apply_event", ok |-> TRUE]
    /\ given' = NoGiven
    /\ UNCHANGED <<epics, file, now>>

\* an apply_event that also writes the snapshot file
ApplyEventSaving(ev) ==
    /\ ApplyEventMaps(ev)
    /\ file' = SerializedCache(issues', gates', epics, now)
    /\ ret' = [op |-> "apply_event", ok |-> TRUE]
    /\ given' = NoGiven
    /\ UNCHANGED <<epics, last_full_sync, now>>

\* BeadsCache::apply_event
ApplyEvent(ev) ==
    /\ ApplyEventMaps(ev)
    /\ ret' = [op |-> "apply_event", ok |-> TRUE]
    /\ given' = NoGiven
    /\ UNCHANGED <<epics, last_full_sync, file, now>>

\* the clock advances
Tick ==
    /\ now + TickStep <= MaxTicks * TickStep
    /\ now' = now + TickStep
    /\ ret' = [op |-> "tick", ok |-> TRUE]
    /\ given' = NoGiven
    /\ UNCHANGED <<issues, gates, epics, last_full_sync, file>>

-----------------------------------------------------------------------------
(* ActivityStream (bd/activity.rs)                                         *)

INITIAL_BACKOFF == 1
MAX_BACKOFF == 30
BACKOFF_MULTIPLIER == 2
MAX_PARSE_ERRORS == 100

\* start(): if consecutive_errors > 10
MAX_CONSECUTIVE_ERRORS == 10

\* number of decodable lines the child writes over the supervisor's lifetime
MaxEvents == 2

EventA == [event_type |-> "issue.deleted", issue_id |-> "T1", timestamp |-> Timestamp]
EventB == [event_type |-> "daemon_started", timestamp |-> Timestamp]

\* lines of the child's standard output: pad says the text is surrounded by
\* white space, text is "" for a line with nothing else, obj the JSON object
\* of a line that is one
StdoutLines ==
    {[pad |-> FALSE, text |-> "", obj |-> EmptyMap],
     [pad |-> TRUE,  text |-> "", obj |-> EmptyMap],
     [pad |-> FALSE, text |-> "invalid json", obj |-> EmptyMap],
     [pad |-> FALSE, text |-> "json", obj |-> [event_type |-> "issue.deleted"]],
     [pad |-> FALSE, text |-> "json", obj |-> EventA],
     [pad |-> TRUE,  text |-> "json", obj |-> EventB]}

StderrLines == {"", "warning"}

\* str::trim
Trim(l) == [l EXCEPT !.pad = FALSE]

\* str::is_empty
IsEmpty(l) == l.text = "" /\ ~l.pad

\* parse_event returns Ok: the line is a JSON object with the required
\* fields of ActivityEvent (event_type, timestamp)
ParseOk(l) ==
    /\ l.text = "json"
    /\ ~l.pad
    /\ {"event_type", "timestamp"} \subseteq DOMAIN l.obj

\* parse_event: serde_json::from_str::<ActivityEvent>; the Option fields
\* default to None, the other fields are flattened into extra
ParseEvent(l) ==
    [event_type |-> l.obj["event_type"],
     issue_id   |-> IF "issue_id" \in DOMAIN l.obj THEN l.obj["issue_id"] ELSE None,
     gate_id    |-> IF "gate_id" \in DOMAIN l.obj THEN l.obj["gate_id"] ELSE None,
     timestamp  |-> l.obj["timestamp"],
     extra      |-> [k \in (DOMAIN l.obj) \ {"event_type", "issue_id", "gate_id", "timestamp"}
                        |-> l.obj[k]]]

\* a backoff that doubles without the cap
NextBackoffUncapped(b) == b * BACKOFF_MULTIPLIER

\* start(): backoff = min(backoff * BACKOFF_MULTIPLIER, MAX_BACKOFF)
NextBackoff(b) == Min(b * BACKOFF_MULTIPLIER, MAX_BACKOFF)

\* a ceiling check that already stops at the tenth error
TooManyErrorsAtCeiling(n) == n >= MAX_CONSECUTIVE_ERRORS

\* start(): if consecutive_errors > 10 { return }
TooManyErrors(n) == n > MAX_CONSECUTIVE_ERRORS

\* run_stream(): if parse_errors > MAX_PARSE_ERRORS { return Err }
TooManyParseErrors(n) == n > MAX_PARSE_ERRORS

\* a send that puts the event in front of the waiting ones
SendInFront(q, ev) == <<ev>> \o q

\* UnboundedSender::send on an open channel
Send(q, ev) == Append(q, ev)

\* a counter that is not reset by a forwarded event
KeepParseErrors(n) == n

\* run_stream(): parse_errors after an event was forwarded
ResetParseErrors(n) == 0

\* how spawning the child can go
SpawnOutcomes == {"ok", "spawn_fails", "stdio_missing"}

\* how collecting the child's exit can go once its stdout has ended
WaitOutcomes == {"exit_zero", "exit_nonzero", "exit_signal", "timeout", "wait_error"}

\* an exit check that takes every collected exit for a clean stop
ExitResultIgnoringCode(o) ==
    CASE o = "timeout"      -> [ok |-> FALSE, why |-> "timeout"]
      [] o = "wait_error"   -> [ok |-> FALSE, why |-> "wait_error"]
      [] o = "exit_nonzero" -> [ok |-> TRUE,  why |-> "exit_nonzero"]
      [] o = "exit_zero"    -> [ok |-> TRUE,  why |-> "exit_zero"]
      [] o = "exit_signal"  -> [ok |-> TRUE,  why |-> "exit_signal"]

\* run_stream(): the result decided from timeout(STARTUP_GRACE, child.wait())
\* and exit_status.code()
ExitResult(o) ==
    CASE o = "timeout"      -> [ok |-> FALSE, why |-> "timeout"]
      [] o = "wait_error"   -> [ok |-> FALSE, why |-> "wait_error"]
      [] o = "exit_nonzero" -> [ok |-> FALSE, why |-> "exit_nonzero"]
      [] o = "exit_zero"    -> [ok |-> TRUE,  why |-> "exit_zero"]
      [] o = "exit_signal"  -> [ok |-> TRUE,  why |-> "exit_signal"]

\* start(): what the loop does with the value run_stream returned, up to its
\* next await. Err: count it and sleep(backoff). Ok: break. The child handle
\* is dropped when run_stream returns (kill_on_drop).
Returned(r) ==
    /\ result' = r
    /\ child' = "none"
    /\ IF r.ok
       THEN /\ pc' = "stopped"
            /\ UNCHANGED <<consecutive_errors, delays>>
       ELSE /\ consecutive_errors' = consecutive_errors + 1
            /\ delays' = Append(delays, backoff)
            /\ pc' = "sleeping"
    /\ UNCHANGED backoff

\* run_stream(): Command::spawn and taking the stdio handles
Spawn(o) ==
    /\ pc = "loop"
    /\ cycles' = cycles + 1
    /\ bad_run' = 0
    /\ parse_errors' = 0
    /\ IF o = "ok"
       THEN /\ pc' = "reading"
            /\ child' = "running"
            /\ UNCHANGED <<backoff, consecutive_errors, result, delays>>
       ELSE Returned([ok |-> FALSE, why |-> o])
    /\ UNCHANGED <<queue, received, rx_open, read_log>>

\* run_stream(): one iteration of the while-let loop over stdout
ReadLine(line) ==
    /\ pc = "reading"
    /\ LET l == Trim(line) IN
       IF IsEmpty(l)
       THEN UNCHANGED streamVars
       ELSE IF ~ParseOk(l)
       THEN /\ parse_errors' = parse_errors + 1
            /\ bad_run' = bad_run + 1
            /\ IF TooManyParseErrors(parse_errors + 1)
               THEN Returned([ok |-> FALSE, why |-> "parse_errors"])
               ELSE UNCHANGED <<pc, backoff, consecutive_errors, child, result, delays>>
            /\ UNCHANGED <<queue, received, rx_open, cycles, read_log>>
       ELSE /\ Len(read_log) < MaxEvents
            /\ read_log' = Append(read_log, line)
            /\ IF rx_open
               THEN /\ queue' = Send(queue, ParseEvent(l))
                    /\ parse_errors' = ResetParseErrors(parse_errors)
                    /\ bad_run' = 0
                    /\ UNCHANGED <<pc, backoff, consecutive_errors, child, result, delays>>
               ELSE /\ Returned([ok |-> FALSE, why |-> "channel_closed"])
                    /\ UNCHANGED <<queue, parse_errors, bad_run>>
            /\ UNCHANGED <<received, rx_open, cycles>>

\* run_stream(): next_line returns None or Err, the loop ends
Eof ==
    /\ pc = "reading"
    /\ pc' = "waiting"
    /\ UNCHANGED <<backoff, consecutive_errors, parse_errors, child, result, queue,
                   received, rx_open, cycles, delays, bad_run, read_log>>

\* run_stream(): the bounded waits for the stderr task and for the child
Wait(o) ==
    /\ pc = "waiting"
    /\ Returned(ExitResult(o))
    /\ UNCHANGED <<parse_errors, queue, received, rx_open, cycles, bad_run, read_log>>

\* start(): sleep(backoff) is over
Wake ==
    /\ pc = "sleeping"
    /\ backoff' = NextBackoff(backoff)
    /\ pc' = IF TooManyErrors(consecutive_errors) THEN "stopped" ELSE "loop"
    /\ UNCHANGED <<consecutive_errors, parse_errors, child, result, queue, received,
                   rx_open, cycles, delays, bad_run, read_log>>

\* the stderr task: reads a line and logs it with warn! when it is not empty
StderrLine(line) ==
    /\ child = "running"
    /\ line \in StderrLines
    /\ UNCHANGED streamVars

\* the consumer takes the next event from the channel
Recv ==
    /\ rx_open
    /\ queue # <<>>
    /\ received' = Append(received, Head(queue))
    /\ queue' = Tail(queue)
    /\ UNCHANGED <<pc, backoff, consecutive_errors, parse_errors, child, result,
                   rx_open, cycles, delays, bad_run, read_log>>

\* the consumer drops the receiver: the channel closes, what it holds is dropped
DropReceiver ==
    /\ rx_open
    /\ rx_open' = FALSE
    /\ queue' = <<>>
    /\ UNCHANGED <<pc, backoff, consecutive_errors, parse_errors, child, result,
                   received, cycles, delays, bad_run, read_log>>

\* the JoinHandle start() returned is dropped: tokio detaches the task, which
\* runs on
DropHandle ==
    /\ handle = "held"
    /\ handle' = "dropped"
    /\ UNCHANGED streamVars

\* JoinHandle::abort: the task is cancelled at its await point; its future is
\* dropped and with it the Child, which kill_on_drop(true) kills
Abort ==
    /\ handle = "held"
    /\ handle' = "aborted"
    /\ IF pc = "stopped"
       THEN UNCHANGED <<pc, child>>
       ELSE pc' = "cancelled" /\ child' = "none"
    /\ UNCHANGED <<backoff, consecutive_errors, parse_errors, result, queue, received,
                   rx_open, cycles, delays, bad_run, read_log>>

-----------------------------------------------------------------------------
(* Persistence across restarts (beads_cache.rs:37-63, 235-274)             *)

NoDurable == [issues |-> <<>>, gates |-> <<>>, epics |-> <<>>, patched |-> FALSE]

\* the instants at which the clock is looked at: around the staleness
\* threshold and around the maximal age of a loadable file
ClockTimes == {0, STALE_DURATION, STALE_DURATION + 1, LOAD_MAX_AGE, LOAD_MAX_AGE + 1}

\* the clock advances to a later instant
TickTo(t) ==
    /\ t > now
    /\ now' = t
    /\ ret' = [op |-> "tick", ok |-> TRUE]
    /\ given' = NoGiven
    /\ UNCHANGED <<issues, gates, epics, last_full_sync, file>>

\* the full_refresh arguments: at most one issue, gate and epic
RestartRefreshInputs ==
    [issues : {s \in IssueLists : Len(s) <= 1}, gates : GateLists, epics : EpicLists]

\* well-formed events: a deletion by identifier, or a creation / update that
\* embeds the entity of that identifier
RestartEvents ==
    {ev \in IssueEvents :
        /\ ev.issue_id # None
        /\ IF ev.event_type = "issue.deleted" THEN ev.extra = EmptyMap
           ELSE /\ "issue" \in DOMAIN ev.extra
                /\ IssueDecodes(ev.extra["issue"])
                /\ ev.extra["issue"].id = ev.issue_id}
    \cup
    {ev \in GateEvents :
        /\ ev.gate_id # None
        /\ IF ev.event_type = "gate.deleted" THEN ev.extra = EmptyMap
           ELSE /\ "gate" \in DOMAIN ev.extra
                /\ GateDecodes(ev.extra["gate"])
                /\ ev.extra["gate"].id = ev.gate_id}

-----------------------------------------------------------------------------
(* The RwLock around the store (beads_cache.rs:51, state.rs:18)            *)

\* the tasks that use the store: command handlers and writers
Tasks == {"t1", "t2"}

NoLock == [writer |-> None, readers |-> {}]

NoSeen == [fields |-> {}, issues |-> EmptyMap, gates |-> EmptyMap, epics |-> EmptyMap,
           last_full_sync |-> 0]

\* the fields of the store a reading operation looks at
Fields == {"issues", "gates", "epics", "last_full_sync"}

\* the store as a record of its fields
Store == [issues |-> issues, gates |-> gates, epics |-> epics,
          last_full_sync |-> last_full_sync]

\* a write() that is granted while other tasks hold read guards
CanWriteAmongReaders(l) == l.writer = None

\* tokio RwLock: write() is granted when no guard is held
CanWrite(l) == l.writer = None /\ l.readers = {}

\* tokio RwLock: read() is granted when no write guard is held
CanRead(l) == l.writer = None

\* the full_refresh arguments the writers pass: nothing, or one of each entity
LockRefreshInputs ==
    {[issues |-> <<>>, gates |-> <<>>, epics |-> <<>>]}
    \cup {[issues |-> <<i>>, gates |-> <<g>>, epics |-> <<e>>] :
             i \in {x \in Issue : x.title = "a" /\ x.id = "T1"}, g \in Gate, e \in EpicStatus}

\* the events the writers apply: T1 is deleted, or updated to its other version
LockEvents ==
    {ev \in IssueEvents :
        /\ ev.issue_id = "T1"
        /\ \/ ev.event_type = "issue.deleted" /\ ev.extra = EmptyMap
           \/ /\ ev.event_type = "issue.updated"
              /\ "issue" \in DOMAIN ev.extra
              /\ IssueDecodes(ev.extra["issue"])
              /\ ev.extra["issue"].id = "T1"
              /\ ev.extra["issue"].title = "b"}

\* a command handler calls beads_cache.read().await
BeginRead(t) ==
    /\ tpc[t] = "idle"
    /\ tpc' = [tpc EXCEPT ![t] = "want_read"]
    /\ UNCHANGED <<cacheVars, lock, seen>>

\* the read guard is granted
AcquireRead(t) ==
    /\ tpc[t] = "want_read"
    /\ CanRead(lock)
    /\ lock' = [lock EXCEPT !.readers = @ \cup {t}]
    /\ tpc' = [tpc EXCEPT ![t] = "reading"]
    /\ UNCHANGED <<cacheVars, seen>>

\* the reading operation (get_stats, get_dag, list_issues, ...) reads one more
\* field of the store through its guard
ReadField(t, f) ==
    /\ tpc[t] = "reading"
    /\ f \notin seen[t].fields
    /\ seen' = [seen EXCEPT ![t] = [@ EXCEPT ![f] = Store[f], !.fields = @ \cup {f}]]
    /\ UNCHANGED <<cacheVars, lock, tpc>>

\* the reading operation returns and its guard is dropped
ReleaseRead(t) ==
    /\ tpc[t] = "reading"
    /\ lock' = [lock EXCEPT !.readers = @ \ {t}]
    /\ tpc' = [tpc EXCEPT ![t] = "idle"]
    /\ seen' = [seen EXCEPT ![t] = NoSeen]
    /\ UNCHANGED cacheVars

\* a task asks for the write guard that full_refresh / apply_event (&mut self)
\* need
BeginWrite(t) ==
    /\ tpc[t] = "idle"
    /\ tpc' = [tpc EXCEPT ![t] = "want_write"]
    /\ UNCHANGED <<cacheVars, lock, seen>>

\* the write guard is granted
AcquireWrite(t) ==
    /\ tpc[t] = "want_write"
    /\ CanWrite(lock)
    /\ lock' = [lock EXCEPT !.writer = t]
    /\ tpc' = [tpc EXCEPT ![t] = "writing"]
    /\ UNCHANGED <<cacheVars, seen>>

\* the write guard is dropped when the writing operation has returned
ReleaseWrite(t) ==
    /\ lock' = [lock EXCEPT !.writer = None]
    /\ tpc' = [tpc EXCEPT ![t] = "idle"]
    /\ UNCHANGED seen

\* full_refresh up to its await of save_to_disk: the maps and last_full_sync
\* are assigned
RefreshAssign(t, in) ==
    /\ tpc[t] = "writing"
    /\ issues' = Replace(issues, CollectById(in.issues))
    /\ gates'  = Replace(gates, CollectById(in.gates))
    /\ epics'  = Replace(epics, CollectById(in.epics))
    /\ last_full_sync' = now
    /\ tpc' = [tpc EXCEPT ![t] = "saving"]
    /\ UNCHANGED <<file, now, ret, given, lock, seen>>

\* save_to_disk: create_dir_all and the opening of the file by
\* tokio::fs::write, which truncates it; or one of them fails
SaveOpen(t, ok) ==
    /\ tpc[t] = "saving"
    /\ IF ok
       THEN /\ file' = PartialFile
            /\ tpc' = [tpc EXCEPT ![t] = "file_open"]
            /\ UNCHANGED <<ret, lock, seen>>
       ELSE /\ ret' = [op |-> "full_refresh", ok |-> FALSE]
            /\ ReleaseWrite(t)
            /\ UNCHANGED file
    /\ UNCHANGED <<issues, gates, epics, last_full_sync, now, given>>

\* save_to_disk: the bytes are written and full_refresh returns; or the write
\* fails with part of them in the file
SaveWrite(t, ok) ==
    /\ tpc[t] = "file_open"
    /\ file' = IF ok THEN SerializedCache(issues, gates, epics, now) ELSE PartialFile
    /\ ret' = [op |-> "full_refresh", ok |-> ok]
    /\ ReleaseWrite(t)
    /\ UNCHANGED <<issues, gates, epics, last_full_sync, now, given>>

\* apply_event under the write guard
ApplyUnderLock(t, ev) ==
    /\ tpc[t] = "writing"
    /\ ApplyEventMaps(ev)
    /\ ret' = [op |-> "apply_event", ok |-> TRUE]
    /\ ReleaseWrite(t)
    /\ UNCHANGED <<epics, last_full_sync, file, now, given>>

\* the process is killed wherever its tasks are and started again:
\* BeadsCache::new on the file as it was left
Restart ==
    /\ New
    /\ lock' = NoLock
    /\ tpc' = [t \in Tasks |-> "idle"]
    /\ seen' = [t \in Tasks |-> NoSeen]

-----------------------------------------------------------------------------
(* DagBuilder (cache/dag.rs)                                               *)

EmptyBuilder == [issues |-> EmptyMap, gates |-> EmptyMap, epics |-> EmptyMap]

NoGraph == [epic_id |-> None, nodes |-> <<>>, edges |-> <<>>]

\* no enrich_with_sessions yet
NoEnriched == [of |-> NoGraph, task_sessions |-> EmptyMap, graph |-> NoGraph]

\* serde_json::Value: a string, a number or an object
JStr(x) == [kind |-> "string", str |-> x]
JNum    == [kind |-> "number", num |-> 42]
JObj(o) == [kind |-> "object", obj |-> o]

\* Value::as_str, as the set of its results
AsStr(v) == IF v.kind = "string" THEN {v.str} ELSE {}

\* build_dag: the identifier a dependency value resolves to (a bare string,
\* or an object with a string "id"), as the set of its results
DepId(v) ==
    IF v.kind = "string" THEN {v.str}
    ELSE IF v.kind = "object"
    THEN IF "id" \in DOMAIN v.obj THEN AsStr(v.obj["id"]) ELSE {}
    ELSE {}

\* an Issue as the builder reads it
MkIssue(id, type, deps, extra) ==
    [id |-> id, title |-> "t", status |-> "open", labels |-> <<>>,
     dependencies |-> deps, assignee |-> None, owner |-> None,
     issue_type |-> type, extra |-> extra]

\* build_dag: the Issue standing in for the owner of a gate that is not cached
DefaultIssue ==
    [id |-> "", title |-> "", status |-> "", labels |-> <<>>, dependencies |-> <<>>,
     assignee |-> None, owner |-> None, issue_type |-> None, extra |-> EmptyMap]

\* Issue::effective_assignee
EffectiveAssignee(issue) == IF issue.assignee # None THEN issue.assignee ELSE issue.owner

\* is_issue_in_epic
IsIssueInEpic(b, issue, epic_id) ==
    IF "epic_id" \in DOMAIN issue.extra /\ AsStr(issue.extra["epic_id"]) # {}
    THEN AsStr(issue.extra["epic_id"]) = {epic_id}
    ELSE IF "parent" \in DOMAIN issue.extra /\ AsStr(issue.extra["parent"]) # {}
    THEN AsStr(issue.extra["parent"]) = {epic_id}
    ELSE /\ epic_id \in DOMAIN b.epics
         /\ "epic_id" \in DOMAIN issue.extra
         /\ AsStr(issue.extra["epic_id"]) = {epic_id}

\* build_dag: the filter that selects epic_issues
InEpicIssues(b, issue, epic_id) ==
    \/ IsIssueInEpic(b, issue, epic_id)
    \/ issue.issue_type = "Epic" /\ issue.id = epic_id

\* the string literals of infer_node_type
Literal(name) ==
    CASE name = "review"        -> <<"r", "e", "v", "i", "e", "w">>
      [] name = "gate"          -> <<"g", "a", "t", "e">>
      [] name = "pm-validation" -> <<"p", "m", "-", "v", "a", "l", "i", "d", "a", "t", "i", "o", "n">>
      [] name = "pm validation" -> <<"p", "m", " ", "v", "a", "l", "i", "d", "a", "t", "i", "o", "n">>

\* the substrings infer_node_type looks for that the lower-cased label contains
LabelMarks(label) ==
    {name \in {"review", "gate", "pm-validation", "pm validation"} :
        Contains(ToLowercase(label), Literal(name))}

\* a kind decision that looks for "gate" before "review" within a label
RECURSIVE LabelTypeGateFirst(_)
LabelTypeGateFirst(labels) ==
    IF labels = <<>> THEN None
    ELSE LET m == LabelMarks(Head(labels)) IN
         IF "gate" \in m THEN "Gate"
         ELSE IF "review" \in m THEN "Review"
         ELSE IF m \cap {"pm-validation", "pm validation"} # {} THEN "PmValidation"
         ELSE LabelTypeGateFirst(Tail(labels))

\* infer_node_type: the kind the labels give, None when no label matches
RECURSIVE LabelType(_)
LabelType(labels) ==
    IF labels = <<>> THEN None
    ELSE LET m == LabelMarks(Head(labels)) IN
         IF "review" \in m THEN "Review"
         ELSE IF "gate" \in m THEN "Gate"
         ELSE IF m \cap {"pm-validation", "pm validation"} # {} THEN "PmValidation"
         ELSE LabelType(Tail(labels))

\* infer_node_type
InferNodeType(issue) ==
    IF LabelType(issue.labels) # None THEN LabelType(issue.labels)
    ELSE CASE issue.issue_type = "Epic" -> "Epic"
           [] issue.issue_type = "Gate" -> "Gate"
           [] OTHER -> "Task"

\* build_dag: the DagNode of an issue
IssueNode(issue, type) ==
    [id |-> issue.id, title |-> issue.title, node_type |-> type, status |-> issue.status,
     assignee |-> EffectiveAssignee(issue), session_id |-> None, task_status |-> None]

\* build_dag: the DagNode of a gate
GateNode(gate) ==
    [id |-> gate.id, title |-> <<"Gate: ", gate.gate_type>>, node_type |-> "Gate",
     status |-> gate.status, assignee |-> None, session_id |-> None, task_status |-> None]

BlocksEdge(from, to) == [source |-> from, target |-> to, edge_type |-> "Blocks"]

\* build_dag: the edges pushed for the dependencies of one issue, in order
RECURSIVE DepEdges(_, _, _)
DepEdges(b, deps, target) ==
    IF deps = <<>> THEN <<>>
    ELSE LET ids  == DepId(Head(deps))
             rest == DepEdges(b, Tail(deps), target)
         IN  IF ids # {} /\ (CHOOSE x \in ids : TRUE) \in DOMAIN b.issues
             THEN <<BlocksEdge(CHOOSE x \in ids : TRUE, target)>> \o rest
             ELSE rest

\* build_dag: the loop over epic_issues, keys being their keys in iteration
\* order: the nodes and the edges it pushes
RECURSIVE IssueNodes(_, _)
IssueNodes(b, keys) ==
    IF keys = <<>> THEN <<>>
    ELSE <<IssueNode(b.issues[Head(keys)], InferNodeType(b.issues[Head(keys)]))>>
         \o IssueNodes(b, Tail(keys))

RECURSIVE IssueEdges(_, _)
IssueEdges(b, keys) ==
    IF keys = <<>> THEN <<>>
    ELSE DepEdges(b, b.issues[Head(keys)].dependencies, b.issues[Head(keys)].id)
         \o IssueEdges(b, Tail(keys))

\* build_dag: the owner of a gate as is_issue_in_epic gets it
GateOwner(b, gate) ==
    IF gate.issue_id \in DOMAIN b.issues THEN b.issues[gate.issue_id] ELSE DefaultIssue

\* build_dag: the loop over the gates, keys being their keys in iteration order
RECURSIVE GateNodes(_, _, _)
GateNodes(b, keys, epic_id) ==
    IF keys = <<>> THEN <<>>
    ELSE LET gate == b.gates[Head(keys)] IN
         (IF IsIssueInEpic(b, GateOwner(b, gate), epic_id) THEN <<GateNode(gate)>> ELSE <<>>)
         \o GateNodes(b, Tail(keys), epic_id)

RECURSIVE GateEdges(_, _, _)
GateEdges(b, keys, epic_id) ==
    IF keys = <<>> THEN <<>>
    ELSE LET gate == b.gates[Head(keys)] IN
         (IF /\ IsIssueInEpic(b, GateOwner(b, gate), epic_id)
             /\ gate.issue_id \in DOMAIN b.issues
          THEN <<BlocksEdge(gate.issue_id, gate.id)>> ELSE <<>>)
         \o GateEdges(b, Tail(keys), epic_id)

\* the orders in which a HashMap with key set S may be iterated
Orders(S) == {o \in [1..Cardinality(S) -> S] : \A i, j \in DOMAIN o : o[i] = o[j] => i = j}

\* build_dag(epic_id) on builder b, its maps iterated in the orders iord, gord
DagOf(b, epic_id, iord, gord) ==
    LET InEpic(k) == InEpicIssues(b, b.issues[k], epic_id)
        epic_keys == SelectSeq(iord, InEpic)
        epic_node == IF epic_id \in DOMAIN b.issues
                     THEN <<IssueNode(b.issues[epic_id], "Epic")>>
                     ELSE <<>>
    IN  [epic_id |-> epic_id,
         nodes   |-> epic_node \o IssueNodes(b, epic_keys) \o GateNodes(b, gord, epic_id),
         edges   |-> IssueEdges(b, epic_keys) \o GateEdges(b, gord, epic_id)]

\* the argument of build_dag: a grouping with items, and one without
DagEpicArgs == {"E1", "E2"}

\* dependencies of an issue: none; a bare identifier; an object with an id;
\* two identifiers; the same identifier twice; an unknown identifier with
\* values that resolve to none
DepLists ==
    {<<>>,
     <<JStr("T1")>>,
     <<JObj([id |-> JStr("T2")])>>,
     <<JStr("T1"), JStr("T2")>>,
     <<JStr("T2"), JStr("T2")>>,
     <<JStr("T9"), JNum, JObj([name |-> JStr("x")]), JObj([id |-> JNum])>>}

\* the field bag of an issue: no grouping reference, epic_id, parent, both,
\* and an epic_id that is no string
Extras ==
    {EmptyMap,
     [epic_id |-> JStr("E1")],
     [epic_id |-> JStr("E2")],
     [parent |-> JStr("E1")],
     [epic_id |-> JStr("E2"), parent |-> JStr("E1")],
     [epic_id |-> JNum, parent |-> JStr("E1")]}

\* no issue under an identifier
Absent == [id |-> ""]

\* the versions of task id a snapshot may hold
DagTasks(id) == {Absent} \cup {MkIssue(id, "Task", d, x) : d \in DepLists, x \in Extras}

\* the versions of the grouping's own item
DagEpicItems ==
    {Absent,
     MkIssue("E1", "Epic", <<>>, EmptyMap),
     MkIssue("E1", "Epic", <<JStr("T1")>>, [epic_id |-> JStr("E1")]),
     MkIssue("E1", "Task", <<>>, EmptyMap)}

\* HashMap keyed by id of the entities of S
ById(S) == [k \in {x.id : x \in S} |-> CHOOSE x \in S : x.id = k]

DagIssueMaps ==
    {ById({a, b, c} \ {Absent}) : a \in DagTasks("T1"), b \in DagTasks("T2"), c \in DagEpicItems}

\* gate maps: none; a gate of T1; a gate of an issue that is not cached
DagGateMaps ==
    {EmptyMap}
    \cup {ById({[id |-> "G1", issue_id |-> o, gate_type |-> "compile", status |-> "pending"]}) :
             o \in {"T1", "T9"}}

DagEpicMaps == {EmptyMap} \cup {ById({e}) : e \in EpicStatus}

\* test_build_dag_diamond_dependency_pattern: D1 depends on D2 and D3, which
\* both depend on D0
Diamond ==
    [issues |-> ById({MkIssue("D0", "Task", <<>>, [epic_id |-> JStr("E1")]),
                      MkIssue("D2", "Task", <<JStr("D0")>>, [epic_id |-> JStr("E1")]),
                      MkIssue("D3", "Task", <<JStr("D0")>>, [epic_id |-> JStr("E1")]),
                      MkIssue("D1", "Task", <<JStr("D2"), JStr("D3")>>,
                              [epic_id |-> JStr("E1")])}),
     gates  |-> EmptyMap,
     epics  |-> EmptyMap]

\* the snapshots DagBuilder::new is given
Builders ==
    {[issues |-> i, gates |-> g, epics |-> e] :
        i \in DagIssueMaps, g \in DagGateMaps, e \in DagEpicMaps}
    \cup {Diamond}

\* labels, spelled out
L_review        == <<"r", "e", "v", "i", "e", "w">>
L_CodeReview    == <<"C", "o", "d", "e", "-", "R", "e", "v", "i", "e", "w">>
L_GATE          == <<"G", "A", "T", "E">>
L_gate_review   == <<"g", "a", "t", "e", "-", "r", "e", "v", "i", "e", "w">>
L_pm_validation == <<"p", "m", "-", "v", "a", "l", "i", "d", "a", "t", "i", "o", "n">>
L_PM_Validation == <<"P", "M", " ", "V", "a", "l", "i", "d", "a", "t", "i", "o", "n">>
L_pm_gate       == <<"p", "m", "-", "v", "a", "l", "i", "d", "a", "t", "i", "o", "n", " ",
                     "g", "a", "t", "e">>
L_pm_underscore == <<"p", "m", "_", "v", "a", "l", "i", "d", "a", "t", "i", "o", "n">>
L_bug           == <<"b", "u", "g">>

\* the labels of an issue: none; one label that matches in lower or mixed
\* case; one label that matches twice; none that matches; two labels of
\* which the first or the second decides
LabelLists ==
    {<<>>, <<L_review>>, <<L_CodeReview>>, <<L_GATE>>, <<L_gate_review>>,
     <<L_pm_validation>>, <<L_PM_Validation>>, <<L_pm_gate>>, <<L_pm_underscore>>,
     <<L_bug>>, <<L_GATE, L_review>>, <<L_pm_validation, L_GATE>>,
     <<L_bug, L_PM_Validation>>, <<L_bug, L_pm_underscore>>}

\* an Issue with labels
MkLabelled(id, type, labels, extra) ==
    [MkIssue(id, type, <<>>, extra) EXCEPT !.labels = labels]

\* snapshots of labelled items: a task of grouping E1 with any labels and type
\* tag, alone or with the grouping's own item, itself labelled or not
LabelBuilders ==
    {[issues |-> ById({a, c} \ {Absent}), gates |-> EmptyMap, epics |-> EmptyMap] :
        a \in {MkLabelled("T1", t, l, [epic_id |-> JStr("E1")]) :
                  t \in {"Task", "Epic", "Gate", "Bug", None}, l \in LabelLists},
        c \in {Absent} \cup {MkLabelled("E1", "Epic", l, x) :
                                l \in {<<>>, <<L_review>>},
                                x \in {EmptyMap, [epic_id |-> JStr("E1")]}}}

\* gates of the snapshots of GateBuilders: absent, or of one of the kinds and
\* owned by one of the owners
DagGates(id, owners, types) ==
    {Absent} \cup {[id |-> id, issue_id |-> o, gate_type |-> t, status |-> "pending"] :
                      o \in owners, t \in types}

\* the field bag of a task that owns gates: a grouping reference under one
\* field name, or none
GateOwnerExtras ==
    {EmptyMap, [epic_id |-> JStr("E1")], [epic_id |-> JStr("E2")], [parent |-> JStr("E1")]}

\* snapshots with up to two gates, their owners in and out of scope: G1 of
\* kind compile or review, owned by task T1, by the uncached T9 or by the
\* grouping's own item E1; G2 of kind compile, owned by T1 or E1
GateBuilders ==
    {[issues |-> ById({a, c} \ {Absent}), gates |-> ById({g, h} \ {Absent}), epics |-> e] :
        a \in {Absent} \cup {MkIssue("T1", "Task", <<>>, x) : x \in GateOwnerExtras},
        c \in DagEpicItems,
        g \in DagGates("G1", {"T1", "T9", "E1"}, {"compile", "review"}),
        h \in DagGates("G2", {"T1", "E1"}, {"compile"}),
        e \in DagEpicMaps}

\* DagBuilder::build_dag
BuildDag(epic_id) ==
    /\ \E iord \in Orders(DOMAIN builder.issues), gord \in Orders(DOMAIN builder.gates) :
          graph' = DagOf(builder, epic_id, iord, gord)
    /\ UNCHANGED builder

\* an enrichment that also clears the session fields of the nodes it is given
\* nothing for
EnrichNodeOrClear(node, task_sessions) ==
    IF node.id \in DOMAIN task_sessions
    THEN [node EXCEPT !.session_id = task_sessions[node.id].session_id,
                      !.task_status = task_sessions[node.id].task_status]
    ELSE [node EXCEPT !.session_id = None, !.task_status = None]

\* enrich_with_sessions: what the loop body does to one node
EnrichNode(node, task_sessions) ==
    IF node.id \in DOMAIN task_sessions
    THEN [node EXCEPT !.session_id = task_sessions[node.id].session_id,
                      !.task_status = task_sessions[node.id].task_status]
    ELSE node

\* enrich_with_sessions: the graph it returns
EnrichedGraph(g, task_sessions) ==
    [g EXCEPT !.nodes = [i \in 1..Len(g.nodes) |-> EnrichNode(g.nodes[i], task_sessions)]]

\* the maps enrich_with_sessions is given: (session_id, task_status) for any of
\* the task T1, the gate G1 and an identifier that is no node
SessionIds == {"T1", "G1", "T9"}

\* a task that runs without a session yet, and one that is done in session s1
SessionValues ==
    {[session_id |-> None, task_status |-> "running"],
     [session_id |-> "s1", task_status |-> "done"]}

TaskSessions == UNION {[S -> SessionValues] : S \in SUBSET SessionIds}

\* enrich_with_sessions on the graph build_dag returned (again = FALSE) or on
\* the graph a previous enrichment returned
EnrichWithSessions(task_sessions, again) ==
    LET g == IF again THEN enriched.graph ELSE graph IN
    /\ g.epic_id # None
    /\ enriched' = [of |-> g, task_sessions |-> task_sessions,
                    graph |-> EnrichedGraph(g, task_sessions)]
    /\ UNCHANGED <<builder, graph>>

\* the snapshots whose graphs are enriched: the task alone; with a gate; with
\* the grouping's item, a dependency and a gate
EnrichBuilders ==
    LET t1 == MkIssue("T1", "Task", <<>>, [epic_id |-> JStr("E1")])
        t2 == MkIssue("T2", "Task", <<JStr("T1")>>, [epic_id |-> JStr("E1")])
        e1 == MkIssue("E1", "Epic", <<>>, EmptyMap)
        g1 == [id |-> "G1", issue_id |-> "T1", gate_type |-> "compile", status |-> "pending"]
    IN  {[issues |-> ById({t1}), gates |-> EmptyMap, epics |-> EmptyMap],
         [issues |-> ById({t1}), gates |-> ById({g1}), epics |-> EmptyMap],
         [issues |-> ById({t1, t2, e1}), gates |-> ById({g1}), epics |-> EmptyMap]}

\* BeadsCache::get_dag: a builder over clones of the three maps, build_dag, and
\* None for a graph without nodes
GetDag(epic_id) ==
    LET b == [issues |-> issues, gates |-> gates, epics |-> epics] IN
    /\ builder' = b
    /\ \E iord \in Orders(DOMAIN issues), gord \in Orders(DOMAIN gates) :
          LET dag == DagOf(b, epic_id, iord, gord) IN
          /\ graph' = dag
          /\ ret' = [op |-> "get_dag", ok |-> TRUE, epic_id |-> epic_id,
                     some |-> dag.nodes # <<>>,
                     dag |-> IF dag.nodes # <<>> THEN dag ELSE NoGraph]
    /\ UNCHANGED <<issues, gates, epics, last_full_sync, file, now, given>>

\* the get_dag command: BeadsCache::get_dag, its None turned into the error
\* "No DAG found for epic ..."
GetDagCommand(epic_id) ==
    LET b == [issues |-> issues, gates |-> gates, epics |-> epics] IN
    /\ builder' = b
    /\ \E iord \in Orders(DOMAIN issues), gord \in Orders(DOMAIN gates) :
          LET dag == DagOf(b, epic_id, iord, gord) IN
          /\ graph' = dag
          /\ ret' = [op |-> "get_dag_command", ok |-> dag.nodes # <<>>, epic_id |-> epic_id,
                     dag |-> IF dag.nodes # <<>> THEN dag ELSE NoGraph]
    /\ UNCHANGED <<issues, gates, epics, last_full_sync, file, now, given>>

\* what full_refresh is given before graphs are asked for: tasks of grouping
\* E1 or E2, the item of E1, a gate of T1
DagRefreshItems ==
    {MkIssue("T1", "Task", <<JStr("T2")>>, [epic_id |-> JStr("E1")]),
     MkIssue("T2", "Task", <<>>, [parent |-> JStr("E1")]),
     MkIssue("T2", "Task", <<>>, [epic_id |-> JStr("E2")]),
     MkIssue("E1", "Epic", <<>>, EmptyMap)}

DagRefreshInputs ==
    [issues : {<<>>} \cup {<<a>> : a \in DagRefreshItems}
                     \cup {<<a, c>> : a \in DagRefreshItems, c \in DagRefreshItems},
     gates  : {<<>>, <<[id |-> "G1", issue_id |-> "T1", gate_type |-> "compile",
                       status |-> "pending"]>>},
     epics  : {<<>>}]

-----------------------------------------------------------------------------
(* Reads of the store (cache/beads_cache.rs:172-218, 296-307)              *)

\* the string literals of get_stats
StatusWord(name) ==
    CASE name = "open"        -> <<"o", "p", "e", "n">>
      [] name = "todo"        -> <<"t", "o", "d", "o">>
      [] name = "backlog"     -> <<"b", "a", "c", "k", "l", "o", "g">>
      [] name = "in progress" -> <<"i", "n", " ", "p", "r", "o", "g", "r", "e", "s", "s">>
      [] name = "in_progress" -> <<"i", "n", "_", "p", "r", "o", "g", "r", "e", "s", "s">>
      [] name = "doing"       -> <<"d", "o", "i", "n", "g">>
      [] name = "closed"      -> <<"c", "l", "o", "s", "e", "d">>
      [] name = "done"        -> <<"d", "o", "n", "e">>
      [] name = "completed"   -> <<"c", "o", "m", "p", "l", "e", "t", "e", "d">>
      [] name = "blocked"     -> <<"b", "l", "o", "c", "k", "e", "d">>

\* get_stats: the statuses, lower-cased, that each counter counts
OpenWords       == {StatusWord(n) : n \in {"open", "todo", "backlog"}}
InProgressWords == {StatusWord(n) : n \in {"in progress", "in_progress", "doing"}}
ClosedWords     == {StatusWord(n) : n \in {"closed", "done", "completed"}}
BlockedWords    == {StatusWord(n) : n \in {"blocked"}}

\* the values of map m in the order ord of its keys
ValuesIn(m, ord) == [i \in 1..Len(ord) |-> m[ord[i]]]

\* a search that compares the query as it was typed
SearchMatchesExactCase(issue, query) ==
    \/ Contains(ToLowercase(issue.title), query)
    \/ Contains(ToLowercase(issue.status), query)

\* search_issues: the filter
SearchMatches(issue, query) ==
    \/ Contains(ToLowercase(issue.title), ToLowercase(query))
    \/ Contains(ToLowercase(issue.status), ToLowercase(query))

\* a filter that takes only pending gates
IsPendingGateOnly(gate) == gate.status = "pending"

\* get_pending_gates, get_stats: the filter on gates
IsPendingGate(gate) == gate.status = "pending" \/ gate.status = "blocked"

\* a count that compares the status as it is stored
CountStatusExactCase(words) ==
    Cardinality({k \in DOMAIN issues : issues[k].status \in words})

\* get_stats: how many issues have a status that, lower-cased, is one of words
CountStatus(words) ==
    Cardinality({k \in DOMAIN issues : ToLowercase(issues[k].status) \in words})

\* what a read leaves alone
storeVars == <<issues, gates, epics, last_full_sync, file, now, given>>

\* search_issues
SearchIssues(query) ==
    /\ \E ord \in Orders(DOMAIN issues) :
          LET Hit(issue) == SearchMatches(issue, query) IN
          ret' = [op |-> "search_issues", ok |-> TRUE, query |-> query,
                  value |-> SelectSeq(ValuesIn(issues, ord), Hit)]
    /\ UNCHANGED storeVars

\* get_pending_gates
GetPendingGates ==
    /\ \E ord \in Orders(DOMAIN gates) :
          ret' = [op |-> "get_pending_gates", ok |-> TRUE,
                  value |-> SelectSeq(ValuesIn(gates, ord), IsPendingGate)]
    /\ UNCHANGED storeVars

\* get_stats; last_sync is the Debug rendering of last_full_sync.elapsed()
GetStats ==
    /\ ret' = [op |-> "get_stats", ok |-> TRUE,
               value |-> [total_issues  |-> Cardinality(DOMAIN issues),
                          open          |-> CountStatus(OpenWords),
                          closed        |-> CountStatus(ClosedWords),
                          in_progress   |-> CountStatus(InProgressWords),
                          blocked       |-> CountStatus(BlockedWords),
                          pending_gates |-> Cardinality({k \in DOMAIN gates :
                                                           IsPendingGate(gates[k])}),
                          last_sync     |-> [format |-> "duration_debug",
                                             secs |-> now - last_full_sync]]]
    /\ UNCHANGED storeVars

\* titles, statuses and queries, spelled out
W_Fix_bug      == <<"F", "i", "x", " ", "b", "u", "g">>
W_Add_feature  == <<"A", "d", "d", " ", "f", "e", "a", "t", "u", "r", "e">>
W_BUGFIX       == <<"B", "U", "G", "F", "I", "X">>
W_Debug        == <<"D", "e", "b", "u", "g">>
W_notes        == <<"n", "o", "t", "e", "s">>
W_open         == <<"o", "p", "e", "n">>
W_In_Progress  == <<"I", "n", " ", "P", "r", "o", "g", "r", "e", "s", "s">>
W_Blocked      == <<"B", "l", "o", "c", "k", "e", "d">>
W_DONE         == <<"D", "O", "N", "E">>
W_wontfix      == <<"w", "o", "n", "t", "f", "i", "x">>
W_bug          == <<"b", "u", "g">>
W_BUG          == <<"B", "U", "G">>
W_zzz          == <<"z", "z", "z">>

\* the items a store that is searched is refreshed with: T1 and T2 of the
\* test, and versions whose title or status differ in case or are unknown
QueryItem(id, title, status) == [id |-> id, title |-> title, status |-> status]

QueryItems ==
    {QueryItem("T1", W_Fix_bug, W_open), QueryItem("T1", W_BUGFIX, W_In_Progress),
     QueryItem("T1", W_notes, W_wontfix),
     QueryItem("T2", W_Add_feature, W_open), QueryItem("T2", W_Debug, W_Blocked),
     QueryItem("T3", W_notes, W_DONE)}

\* gates of every standing: pending, blocked, and two that do not wait
QueryGates ==
    {[id |-> "G1", issue_id |-> "T1", gate_type |-> "compile", status |-> s] :
        s \in {"pending", "Pending", "resolved"}}
    \cup {[id |-> "G2", issue_id |-> "T2", gate_type |-> "review", status |-> "blocked"]}

\* the lists of entities of S with at most one version of each of the
\* identifiers a, b, c, in this order
QueryLists(S, a, b, c) ==
    LET Versions(id) == {<<>>} \cup {<<x>> : x \in {y \in S : y.id = id}}
    IN  {u \o v \o w : u \in Versions(a), v \in Versions(b), w \in Versions(c)}

Queries == {<<>>, W_bug, W_BUG, W_open, W_zzz}

-----------------------------------------------------------------------------
(* BdClient (bd/client.rs): commands run as bd processes                   *)

\* a bd process: the task that spawned it, whether it runs a write command,
\* and whether the future that awaited it is still there
BdProcess(t, write, awaited) == [task |-> t, write |-> write, awaited |-> awaited]

\* run_bd_write is called: the task waits for the permit of write_semaphore
CallBdWrite(t) ==
    /\ cpc[t] = "idle"
    /\ cpc' = [cpc EXCEPT ![t] = "acquire"]
    /\ UNCHANGED <<permits, procs>>

\* run_bd_write gets the permit and run_bd_json spawns the command
\* (cmd.output() spawns before it is awaited)
AcquireAndRun(t) ==
    /\ cpc[t] = "acquire"
    /\ permits > 0
    /\ permits' = permits - 1
    /\ procs' = procs \cup {BdProcess(t, TRUE, TRUE)}
    /\ cpc' = [cpc EXCEPT ![t] = "writing"]

\* a read operation: run_bd_json spawns the command, no permit asked for
RunBdJson(t) ==
    /\ cpc[t] = "idle"
    /\ procs' = procs \cup {BdProcess(t, FALSE, TRUE)}
    /\ cpc' = [cpc EXCEPT ![t] = "reading"]
    /\ UNCHANGED permits

\* the command exits within default_timeout: run_bd_json returns (Ok or
\* CommandFailed or ParseError) and a write drops its permit
CommandExits(t) ==
    /\ cpc[t] \in {"writing", "reading"}
    /\ procs' = procs \ {BdProcess(t, cpc[t] = "writing", TRUE)}
    /\ permits' = IF cpc[t] = "writing" THEN permits + 1 ELSE permits
    /\ cpc' = [cpc EXCEPT ![t] = "idle"]

\* default_timeout elapses first: the output future is dropped, and the
\* child, spawned without kill_on_drop, goes on executing; run_bd_json returns
\* Err(Timeout) and a write drops its permit
CommandTimesOut(t) ==
    /\ cpc[t] \in {"writing", "reading"}
    /\ procs' = (procs \ {BdProcess(t, cpc[t] = "writing", TRUE)})
                   \cup {BdProcess(t, cpc[t] = "writing", FALSE)}
    /\ permits' = IF cpc[t] = "writing" THEN permits + 1 ELSE permits
    /\ cpc' = [cpc EXCEPT ![t] = "idle"]

\* a process nobody awaits any more exits
OrphanExits(p) ==
    /\ p \in procs
    /\ ~p.awaited
    /\ procs' = procs \ {p}
    /\ UNCHANGED <<permits, cpc>>

-----------------------------------------------------------------------------
(* Health monitor (lib.rs:63-95) and HealthChecker (health.rs)             *)

MAX_CACHE_AGE_SECS == 300
HEALTH_INTERVAL == 30
MaxChecks == 3

\* what `bd version` can give: no version (failure or timeout) or a version
BdVersions == {None, "0.9.1", "1.0.0"}

\* chrono::DateTime::parse_from_rfc3339 on the text get_stats gives as
\* last_sync: the Debug form of a Duration is not an RFC 3339 timestamp
ParseFromRfc3339(last_sync) ==
    IF last_sync.format = "rfc3339" THEN {last_sync.secs} ELSE {}

\* check_cache: the cache's age (an Option, as a set) and its staleness
CheckCache ==
    LET last_sync == [format |-> "duration_debug", secs |-> now - last_full_sync]
        age_secs == ParseFromRfc3339(last_sync)
    IN  [age_secs |-> age_secs,
         stale    |-> \E age \in age_secs : age > MAX_CACHE_AGE_SECS]

\* full_check at the n-th tick of the monitor, with what check_bd observed;
\* last_check is Instant::now() at the start of the check
FullCheck(n, version, daemon_running) ==
    [bd_available   |-> version # None,
     bd_version     |-> version,
     daemon_running |-> daemon_running,
     cache_age_secs |-> CheckCache.age_secs,
     cache_stale    |-> CheckCache.stale,
     last_check     |-> n * HEALTH_INTERVAL]

\* derived PartialEq of HealthStatus: every field, last_check included
HealthEq(a, b) == a = b

\* one turn of the monitor's loop: tick, full_check, compare with
\* last_known_health, emit HealthChanged and remember the status if different
HealthTick(version, daemon_running) ==
    /\ Len(checks) < MaxChecks
    /\ LET current_health == FullCheck(Len(checks) + 1, version, daemon_running)
           changed == ~\E h \in last_known_health : HealthEq(h, current_health)
       IN  /\ checks' = Append(checks, [health |-> current_health, emitted |-> changed])
           /\ last_known_health' = IF changed THEN {current_health}
                                               ELSE last_known_health

\* the instants at which the checker looks at the cache: around the maximal
\* cache age
HealthClockTimes == {HEALTH_INTERVAL, MAX_CACHE_AGE_SECS, MAX_CACHE_AGE_SECS + 1,
                     MAX_CACHE_AGE_SECS + HEALTH_INTERVAL}

\* HealthChecker::full_check called at the instant now, with what check_bd
\* observed; the status is returned
FullCheckNow(version, daemon_running) ==
    /\ ret' = [op |-> "full_check", ok |-> TRUE,
               value |-> [FullCheck(0, version, daemon_running) EXCEPT !.last_check = now]]
    /\ UNCHANGED storeVars

-----------------------------------------------------------------------------
(* parse_event (bd/activity.rs:225-233) as a function of the line          *)

JNull == [kind |-> "null"]
JArr  == [kind |-> "array"]

\* the values a field of a line's JSON object may carry
FieldValues == {JStr("x"), JNum, JNull}

\* JSON objects over the fields of ActivityEvent and one more field: a
\* function from the keys that are present to their values
ObjectsOver(keys) ==
    UNION {[ks -> FieldValues] : ks \in SUBSET keys}

EventObjects ==
    {o \in ObjectsOver({"event_type", "issue_id", "gate_id", "timestamp", "actor"}) :
        /\ "gate_id" \in DOMAIN o => o["gate_id"] # JNull
        /\ "actor" \in DOMAIN o => o["actor"] # JNull}

\* lines: text that is not JSON, or a JSON document, with or without white
\* space around it
TextLines ==
    [pad : BOOLEAN, syntax : {"empty", "invalid json", "truncated"}, doc : {JNull}]
    \cup [pad : BOOLEAN, syntax : {"json"},
          doc : {JNull, JNum, JStr("x"), JArr} \cup {JObj(o) : o \in EventObjects}]

\* a required String field of the struct: missing, of another type, or read
StringField(o, k) ==
    IF k \notin DOMAIN o THEN [err |-> "missing field"]
    ELSE IF o[k].kind # "string" THEN [err |-> "invalid type"]
    ELSE [some |-> o[k].str]

\* an Option<String> field that refuses null
OptionFieldNoNull(o, k) ==
    IF k \notin DOMAIN o THEN [some |-> None]
    ELSE IF o[k].kind # "string" THEN [err |-> "invalid type"]
    ELSE [some |-> o[k].str]

\* an Option<String> field: missing or null gives None
OptionField(o, k) ==
    IF k \notin DOMAIN o THEN [some |-> None]
    ELSE IF o[k].kind = "null" THEN [some |-> None]
    ELSE IF o[k].kind # "string" THEN [err |-> "invalid type"]
    ELSE [some |-> o[k].str]

\* the first error among the fields read, as a set
FirstError(fs) ==
    LET bad == {i \in 1..Len(fs) : "err" \in DOMAIN fs[i]}
    IN  IF bad = {} THEN {} ELSE {fs[CHOOSE i \in bad : \A j \in bad : i <= j].err}

\* serde_json::from_str::<ActivityEvent>: white space around the document is
\* skipped; the document must be an object (the struct has a flattened
\* field); the named fields are taken out and the rest is kept in extra
FromStr(l) ==
    IF l.syntax = "empty" THEN [err |-> "EOF while parsing a value"]
    ELSE IF l.syntax = "truncated" THEN [err |-> "EOF while parsing an object"]
    ELSE IF l.syntax # "json" THEN [err |-> "expected value"]
    ELSE IF l.doc.kind # "object" THEN [err |-> "invalid type"]
    ELSE LET o == l.doc.obj
             event_type == StringField(o, "event_type")
             issue_id   == OptionField(o, "issue_id")
             gate_id    == OptionField(o, "gate_id")
             timestamp  == StringField(o, "timestamp")
             errs       == FirstError(<<event_type, issue_id, gate_id, timestamp>>)
         IN  IF errs # {} THEN [err |-> CHOOSE e \in errs : TRUE]
             ELSE [some |-> [event_type |-> event_type.some,
                             issue_id   |-> issue_id.some,
                             gate_id    |-> gate_id.some,
                             timestamp  |-> timestamp.some,
                             extra      |-> [k \in (DOMAIN o) \ {"event_type", "issue_id",
                                                                  "gate_id", "timestamp"}
                                                |-> o[k]]]]

\* parse_event(line): the event, or BdError::ParseError with its message
ParseEventLine(l) ==
    LET r == FromStr(l)
    IN  IF "some" \in DOMAIN r
        THEN [ok |-> TRUE, event |-> r.some]
        ELSE [ok |-> FALSE,
              ParseError |-> [text |-> "Failed to parse activity event: ",
                              error |-> r.err, input |-> l]]

\* parse_event is called on a line; nothing but the result is produced
CallParseEvent(l) ==
    /\ ret' = [op |-> "parse_event", ok |-> ParseEventLine(l).ok, line |-> l,
               value |-> ParseEventLine(l)]
    /\ UNCHANGED storeVars

-----------------------------------------------------------------------------
(* The child processes of the supervisor (bd/activity.rs:128-135, 171-223) *)

\* a Child that is dropped without being killed
DropChildNoKill(a, c) == a

\* the Child of run cycle c is dropped; the command was built with
\* kill_on_drop(true), so a process that is still alive is killed
DropChild(a, c) == a \ {c}

\* Spawn, and the process it starts: with the stdio handles missing the
\* process has started and run_stream returns, dropping the Child
SpawnChild(o) ==
    /\ Spawn(o)
    /\ alive' = CASE o = "ok"            -> alive \cup {cycles + 1}
                  [] o = "stdio_missing" -> DropChild(alive \cup {cycles + 1}, cycles + 1)
                  [] o = "spawn_fails"   -> alive

\* the process of the current run cycle exits by itself
ChildExits ==
    /\ pc \in {"reading", "waiting"}
    /\ cycles \in alive
    /\ alive' = alive \ {cycles}
    /\ UNCHANGED streamVars

\* ReadLine: a return from inside the loop drops the Child
ReadLineChild(line) ==
    /\ ReadLine(line)
    /\ alive' = IF pc' = "reading" THEN alive ELSE DropChild(alive, cycles)

EofChild == Eof /\ UNCHANGED alive

\* Wait: child.wait() returns an exit status only for a process that has
\* exited, and times out only on one that is alive; run_stream then returns
\* and drops the Child
WaitChild(o) ==
    /\ o = "timeout" => cycles \in alive
    /\ Wait(o)
    /\ alive' = IF o \in {"exit_zero", "exit_nonzero", "exit_signal"}
                THEN alive \ {cycles}
                ELSE DropChild(alive, cycles)

WakeChild == Wake /\ UNCHANGED alive

DropReceiverChild == DropReceiver /\ UNCHANGED alive

\* Abort: the cancelled task's future is dropped, and with it the Child
AbortChild ==
    /\ Abort
    /\ alive' = IF pc = "stopped" THEN alive ELSE DropChild(alive, cycles)

-----------------------------------------------------------------------------
(* AppState (state.rs) and the commands that use its bd client             *)

\* workspace directories; the application starts in W1
Workspaces == {"W1", "W2"}

\* the path argument of switch_workspace: a workspace, or no directory
SwitchPaths == Workspaces \cup {"missing"}

AtIdle == [at |-> "idle", path |-> None]

\* a bd command in flight: who started it, the workspace of the client it was
\* started through, and whether its future is still awaited
BdCommand(by, workspace, awaited) == [by |-> by, workspace |-> workspace, awaited |-> awaited]

\* the commands started since the last successful switch
Started(c) ==
    IF switched.to = None THEN switched
    ELSE [switched EXCEPT !.since = @ \cup {[by |-> c.by, workspace |-> c.workspace]}]

\* a command handler (list_issues, get_issue, ...) is called
HandlerCalled(t) ==
    /\ apc[t] = AtIdle
    /\ apc' = [apc EXCEPT ![t] = [at |-> "read", path |-> None]]
    /\ UNCHANGED <<bd_client, checker_client, client_lock, running, switched>>

\* state.bd_client.read().await is granted, and the handler starts its bd
\* command through the client it finds, keeping the guard
HandlerRuns(t) ==
    /\ apc[t].at = "read"
    /\ CanRead(client_lock)
    /\ client_lock' = [client_lock EXCEPT !.readers = @ \cup {t}]
    /\ running' = running \cup {BdCommand(t, bd_client, TRUE)}
    /\ switched' = Started(BdCommand(t, bd_client, TRUE))
    /\ apc' = [apc EXCEPT ![t] = [at |-> "command", path |-> bd_client]]
    /\ UNCHANGED <<bd_client, checker_client>>

\* the handler's command exits (or default_timeout elapses while it still
\* executes); the handler returns and drops its guard
HandlerReturns(t, timed_out) ==
    /\ apc[t].at = "command"
    /\ running' = (running \ {BdCommand(t, apc[t].path, TRUE)})
                     \cup (IF timed_out THEN {BdCommand(t, apc[t].path, FALSE)} ELSE {})
    /\ client_lock' = [client_lock EXCEPT !.readers = @ \ {t}]
    /\ apc' = [apc EXCEPT ![t] = AtIdle]
    /\ UNCHANGED <<bd_client, checker_client, switched>>

\* switch_workspace(path): a path that is no directory is refused; otherwise
\* switch_bd_client builds the new client and asks for the write guard
SwitchWorkspace(t, path) ==
    /\ apc[t] = AtIdle
    /\ apc' = IF path \in Workspaces
              THEN [apc EXCEPT ![t] = [at |-> "write", path |-> path]]
              ELSE apc
    /\ UNCHANGED <<bd_client, checker_client, client_lock, running, switched>>

\* switch_bd_client: the write guard is granted, the client is replaced, the
\* guard is dropped and switch_workspace returns Ok
SwitchBdClient(t) ==
    /\ apc[t].at = "write"
    /\ CanWrite(client_lock)
    /\ bd_client' = apc[t].path
    /\ switched' = [to |-> apc[t].path, since |-> {}]
    /\ apc' = [apc EXCEPT ![t] = AtIdle]
    /\ UNCHANGED <<checker_client, client_lock, running>>

\* check_bd: the health checker runs daemon status through the client it was
\* given at construction, without the lock
CheckBd ==
    /\ BdCommand("health", checker_client, TRUE) \notin running
    /\ running' = running \cup {BdCommand("health", checker_client, TRUE)}
    /\ switched' = Started(BdCommand("health", checker_client, TRUE))
    /\ UNCHANGED <<bd_client, checker_client, client_lock, apc>>

\* a command of the checker, or one nobody awaits any more, exits
CommandEnds(c) ==
    /\ c \in running
    /\ c.by = "health" \/ ~c.awaited
    /\ running' = running \ {c}
    /\ UNCHANGED <<bd_client, checker_client, client_lock, apc, switched>>

-----------------------------------------------------------------------------
(* DaemonManager::ensure_running (bd/daemon.rs:94-137)                     *)

\* DAEMON_START_TIMEOUT and the sleep between two looks at the socket, in ms
DAEMON_START_TIMEOUT == 30000
POLL_INTERVAL == 100

\* the errors a BdClient command can end with
ClientErrors == {"CommandFailed", "Timeout", "ParseError", "Io"}

\* what daemon_status and daemon_start can give: a status, or an error
DaemonOutcomes == {"running", "not_running"} \cup ClientErrors

NoCall == [pc |-> "idle", status |-> None, start |-> None, starts |-> 0, polls |-> 0,
           elapsed |-> 0, result |-> [ok |-> FALSE, error |-> None]]

DaemonReturns(d, ok, error) ==
    [d EXCEPT !.pc = "returned", !.result = [ok |-> ok, error |-> error]]

\* a loop that goes round once more when the window is used up
WithinWindowInclusive(elapsed) == elapsed <= DAEMON_START_TIMEOUT

\* while elapsed < DAEMON_START_TIMEOUT
WithinWindow(elapsed) == elapsed < DAEMON_START_TIMEOUT

\* ensure_running is called: BdClient::with_bd_path finds the bd binary or not
EnsureRunning(bd_exists) ==
    /\ dm.pc = "idle"
    /\ dm' = IF bd_exists THEN [dm EXCEPT !.pc = "status"]
             ELSE DaemonReturns(dm, FALSE, "CliNotFound")

\* client.daemon_status().await?
DaemonStatus(o) ==
    /\ dm.pc = "status"
    /\ LET d == [dm EXCEPT !.status = o] IN
       dm' = CASE o = "running"      -> DaemonReturns(d, TRUE, None)
               [] o = "not_running"  -> [d EXCEPT !.pc = "start"]
               [] o \in ClientErrors -> DaemonReturns(d, FALSE, o)

\* client.daemon_start().await? and the check of start_status.running
DaemonStart(o) ==
    /\ dm.pc = "start"
    /\ LET d == [dm EXCEPT !.start = o, !.starts = @ + 1] IN
       dm' = CASE o = "running"      -> [d EXCEPT !.pc = "poll"]
               [] o = "not_running"  -> DaemonReturns(d, FALSE, "DaemonError")
               [] o \in ClientErrors -> DaemonReturns(d, FALSE, o)

\* one turn of the loop that waits for the socket, which is there or not
\* yet; after the loop the call returns the daemon error
PollSocket(exists) ==
    /\ dm.pc = "poll"
    /\ dm' = IF WithinWindow(dm.elapsed)
             THEN IF exists
                  THEN DaemonReturns([dm EXCEPT !.polls = @ + 1], TRUE, None)
                  ELSE [dm EXCEPT !.polls = @ + 1, !.elapsed = @ + POLL_INTERVAL]
             ELSE DaemonReturns(dm, FALSE, "DaemonError")

-----------------------------------------------------------------------------
(* Specifications                                                          *)

\* the state after construction, but for the builder's snapshot
Start ==
    /\ handle = "held"
    /\ applied = NoEvent
    /\ durable = NoDurable
    /\ lock = NoLock
    /\ tpc = [t \in Tasks |-> "idle"]
    /\ seen = [t \in Tasks |-> NoSeen]
    /\ graph = NoGraph
    /\ enriched = NoEnriched
    /\ permits = 1
    /\ cpc = [t \in Tasks |-> "idle"]
    /\ procs = {}
    /\ last_known_health = {}
    /\ checks = <<>>
    /\ alive = {}
    /\ bd_client = "W1"
    /\ checker_client = "W1"
    /\ client_lock = NoLock
    /\ apc = [t \in Tasks |-> AtIdle]
    /\ running = {}
    /\ switched = [to |-> None, since |-> {}]
    /\ dm = NoCall
    /\ issues = EmptyMap
    /\ gates = EmptyMap
    /\ epics = EmptyMap
    /\ last_full_sync = 0
    /\ file = NoFile
    /\ now = 0
    /\ ret = [op |-> "new", ok |-> TRUE]
    /\ given = NoGiven
    /\ pc = "loop"
    /\ backoff = INITIAL_BACKOFF
    /\ consecutive_errors = 0
    /\ parse_errors = 0
    /\ child = "none"
    /\ result = [ok |-> TRUE, why |-> "none"]
    /\ queue = <<>>
    /\ received = <<>>
    /\ rx_open = TRUE
    /\ cycles = 0
    /\ delays = <<>>
    /\ bad_run = 0
    /\ read_log = <<>>

Init == Start /\ builder = EmptyBuilder

DoNew == New /\ UNCHANGED nonCacheVars
DoFullRefresh ==
    /\ \E items \in IssueLists, gs \in GateLists, es \in EpicLists, o \in DiskOutcomes :
          FullRefresh(items, gs, es, o)
    /\ UNCHANGED nonCacheVars
DoApplyEvent ==
    /\ \E ev \in ActivityEvent : ApplyEvent(ev)
    /\ UNCHANGED nonCacheVars
DoTick == Tick /\ UNCHANGED nonCacheVars

NextCache == DoNew \/ DoFullRefresh \/ DoApplyEvent \/ DoTick

SpecCache == Init /\ [][NextCache]_vars

\* the store under full refreshes that persist and events, the applied event
\* recorded
EventDiskOutcomes == {"ok"}

DoFullRefreshE ==
    /\ \E items \in IssueLists, gs \in GateLists, es \in EpicLists, o \in EventDiskOutcomes :
          FullRefresh(items, gs, es, o)
    /\ applied' = NoEvent
    /\ UNCHANGED <<streamVars, handle, durable, lockVars, dagVars, enriched,
                   clientVars, healthVars,
                   childVars, appVars, daemonVars>>

DoApplyEventE ==
    /\ \E ev \in ActivityEvent : ApplyEvent(ev) /\ applied' = ev
    /\ UNCHANGED <<streamVars, handle, durable, lockVars, dagVars, enriched,
                   clientVars, healthVars,
                   childVars, appVars, daemonVars>>

\* the store over restarts, with the clock at the instants ClockTimes; durable
\* records what the last successful full_refresh was given
nonRestartVars == <<streamVars, handle, applied, lockVars, dagVars, enriched,
                   clientVars, healthVars,
                   childVars, appVars, daemonVars>>

DoFullRefreshR ==
    /\ \E in \in RestartRefreshInputs, o \in DiskOutcomes :
          /\ FullRefresh(in.issues, in.gates, in.epics, o)
          /\ durable' = CASE o = "ok" -> [issues |-> in.issues, gates |-> in.gates,
                                          epics |-> in.epics, patched |-> FALSE]
                           [] o = "fails_before_write" -> durable
                           [] o = "fails_partway" -> NoDurable
    /\ UNCHANGED nonRestartVars

DoApplyEventR ==
    /\ \E ev \in RestartEvents : ApplyEvent(ev)
    /\ durable' = [durable EXCEPT !.patched = @ \/ issues' # issues \/ gates' # gates]
    /\ UNCHANGED nonRestartVars

DoTickTo == (\E t \in ClockTimes : TickTo(t)) /\ UNCHANGED nonCacheVars

NextRestart == DoNew \/ DoFullRefreshR \/ DoApplyEventR \/ DoTickTo

SpecRestart == Init /\ [][NextRestart]_vars

\* the store behind its lock, used by concurrent tasks
nonLockVars == <<streamVars, handle, applied, durable, dagVars, enriched,
                   clientVars, healthVars,
                   childVars, appVars, daemonVars>>

DoBeginRead == (\E t \in Tasks : BeginRead(t)) /\ UNCHANGED nonLockVars
DoAcquireRead == (\E t \in Tasks : AcquireRead(t)) /\ UNCHANGED nonLockVars
DoReadField == (\E t \in Tasks, f \in Fields : ReadField(t, f)) /\ UNCHANGED nonLockVars
DoReleaseRead == (\E t \in Tasks : ReleaseRead(t)) /\ UNCHANGED nonLockVars
DoBeginWrite == (\E t \in Tasks : BeginWrite(t)) /\ UNCHANGED nonLockVars
DoAcquireWrite == (\E t \in Tasks : AcquireWrite(t)) /\ UNCHANGED nonLockVars
DoRefreshAssign ==
    /\ \E t \in Tasks, in \in LockRefreshInputs : RefreshAssign(t, in)
    /\ UNCHANGED nonLockVars
DoSaveOpen == (\E t \in Tasks, ok \in BOOLEAN : SaveOpen(t, ok)) /\ UNCHANGED nonLockVars
DoSaveWrite == (\E t \in Tasks, ok \in BOOLEAN : SaveWrite(t, ok)) /\ UNCHANGED nonLockVars
DoApplyUnderLock ==
    /\ \E t \in Tasks, ev \in LockEvents : ApplyUnderLock(t, ev)
    /\ UNCHANGED nonLockVars
DoRestart == Restart /\ UNCHANGED nonLockVars
DoTickL == Tick /\ UNCHANGED <<lockVars, nonLockVars>>

NextLock ==
    \/ DoBeginRead \/ DoAcquireRead \/ DoReadField \/ DoReleaseRead
    \/ DoBeginWrite \/ DoAcquireWrite \/ DoRefreshAssign \/ DoSaveOpen \/ DoSaveWrite
    \/ DoApplyUnderLock \/ DoRestart \/ DoTickL

SpecLock == Init /\ [][NextLock]_vars

NextEvents == DoFullRefreshE \/ DoApplyEventE

SpecEvents == Init /\ [][NextEvents]_vars

DoSpawn == (\E o \in SpawnOutcomes : Spawn(o)) /\ UNCHANGED nonStreamVars
DoReadLine == (\E l \in StdoutLines : ReadLine(l)) /\ UNCHANGED nonStreamVars
DoEof == Eof /\ UNCHANGED nonStreamVars
DoWait == (\E o \in WaitOutcomes : Wait(o)) /\ UNCHANGED nonStreamVars
DoWake == Wake /\ UNCHANGED nonStreamVars
DoStderrLine == (\E l \in StderrLines : StderrLine(l)) /\ UNCHANGED nonStreamVars
DoRecv == Recv /\ UNCHANGED nonStreamVars
DoDropReceiver == DropReceiver /\ UNCHANGED nonStreamVars

NextStream ==
    \/ DoSpawn \/ DoReadLine \/ DoEof \/ DoWait \/ DoWake
    \/ DoStderrLine \/ DoRecv \/ DoDropReceiver

SpecStream == Init /\ [][NextStream]_vars

\* the supervisor with the owner of its JoinHandle
nonHandleVars == <<cacheVars, applied, durable, lockVars, dagVars, enriched,
                   clientVars, healthVars,
                   childVars, appVars, daemonVars>>

DoDropHandle == DropHandle /\ UNCHANGED nonHandleVars
DoAbort == Abort /\ UNCHANGED nonHandleVars

NextCancel == NextStream \/ DoDropHandle \/ DoAbort

SpecCancel == Init /\ [][NextCancel]_vars

\* a builder over any of the snapshots, asked for graphs
InitDag == Start /\ builder \in Builders

DoBuildDag ==
    /\ \E epic_id \in DagEpicArgs : BuildDag(epic_id)
    /\ UNCHANGED <<cacheVars, streamVars, handle, applied, durable, lockVars,
                   enriched, clientVars, healthVars,
                   childVars, appVars, daemonVars>>

NextDag == DoBuildDag

SpecDag == InitDag /\ [][NextDag]_vars

\* the store read by searches and statistics
DoFullRefreshQ ==
    /\ \E items \in QueryLists(QueryItems, "T1", "T2", "T3"),
          gs \in QueryLists(QueryGates, "G1", "G2", "G3") :
          FullRefresh(items, gs, <<>>, "ok")
    /\ UNCHANGED nonCacheVars

DoSearchIssues == (\E query \in Queries : SearchIssues(query)) /\ UNCHANGED nonCacheVars
DoGetPendingGates == GetPendingGates /\ UNCHANGED nonCacheVars
DoGetStats == GetStats /\ UNCHANGED nonCacheVars

NextReads == DoFullRefreshQ \/ DoSearchIssues \/ DoGetPendingGates \/ DoGetStats

SpecReads == Init /\ [][NextReads]_vars

\* tasks that run commands through one client and its clones
nonClientVars == <<cacheVars, streamVars, handle, applied, durable, lockVars, dagVars,
                   enriched, healthVars,
                   childVars, appVars, daemonVars>>

DoCallBdWrite == (\E t \in Tasks : CallBdWrite(t)) /\ UNCHANGED nonClientVars
DoAcquireAndRun == (\E t \in Tasks : AcquireAndRun(t)) /\ UNCHANGED nonClientVars
DoRunBdJson == (\E t \in Tasks : RunBdJson(t)) /\ UNCHANGED nonClientVars
DoCommandExits == (\E t \in Tasks : CommandExits(t)) /\ UNCHANGED nonClientVars
DoCommandTimesOut == (\E t \in Tasks : CommandTimesOut(t)) /\ UNCHANGED nonClientVars
DoOrphanExits == (\E p \in procs : OrphanExits(p)) /\ UNCHANGED nonClientVars

NextClient ==
    \/ DoCallBdWrite \/ DoAcquireAndRun \/ DoRunBdJson
    \/ DoCommandExits \/ DoCommandTimesOut \/ DoOrphanExits

SpecClient == Init /\ [][NextClient]_vars

\* the background health monitor
DoHealthTick ==
    /\ \E version \in BdVersions, daemon_running \in BOOLEAN :
          HealthTick(version, daemon_running)
    /\ UNCHANGED <<cacheVars, streamVars, handle, applied, durable, lockVars, dagVars,
                   enriched, clientVars, childVars, appVars,
                   daemonVars>>

NextHealth == DoHealthTick

SpecHealth == Init /\ [][NextHealth]_vars

\* a builder over the snapshots of labelled items, asked for graphs
InitDagLabels == Start /\ builder \in LabelBuilders

SpecDagLabels == InitDagLabels /\ [][NextDag]_vars

\* a builder whose graphs are enriched with session maps
InitEnrich == Start /\ builder \in EnrichBuilders

DoEnrichWithSessions ==
    /\ \E task_sessions \in TaskSessions, again \in BOOLEAN :
          EnrichWithSessions(task_sessions, again)
    /\ UNCHANGED <<cacheVars, streamVars, handle, applied, durable, lockVars,
                   clientVars, healthVars,
                   childVars, appVars, daemonVars>>

NextEnrich == DoBuildDag \/ DoEnrichWithSessions

SpecEnrich == InitEnrich /\ [][NextEnrich]_vars

\* the store asked for graphs, by get_dag and through the command
DoFullRefreshG ==
    /\ \E in \in DagRefreshInputs : FullRefresh(in.issues, in.gates, in.epics, "ok")
    /\ UNCHANGED nonCacheVars

DoGetDag ==
    /\ \E epic_id \in DagEpicArgs : GetDag(epic_id)
    /\ UNCHANGED <<streamVars, handle, applied, durable, lockVars, enriched,
                   clientVars, healthVars,
                   childVars, appVars, daemonVars>>

DoGetDagCommand ==
    /\ \E epic_id \in DagEpicArgs : GetDagCommand(epic_id)
    /\ UNCHANGED <<streamVars, handle, applied, durable, lockVars, enriched,
                   clientVars, healthVars,
                   childVars, appVars, daemonVars>>

NextGetDag == DoFullRefreshG \/ DoBuildDag \/ DoGetDag \/ DoGetDagCommand

SpecGetDag == Init /\ [][NextGetDag]_vars

\* a builder over the snapshots with gates, asked for graphs
InitDagGates == Start /\ builder \in GateBuilders

SpecDagGates == InitDagGates /\ [][NextDag]_vars

\* the health checker beside a store that is refreshed while the clock runs
DoFullRefreshH ==
    /\ \E in \in RestartRefreshInputs : FullRefresh(in.issues, in.gates, in.epics, "ok")
    /\ UNCHANGED nonCacheVars

DoTickToH == (\E t \in HealthClockTimes : TickTo(t)) /\ UNCHANGED nonCacheVars

DoFullCheckNow ==
    /\ \E version \in BdVersions, daemon_running \in BOOLEAN :
          FullCheckNow(version, daemon_running)
    /\ UNCHANGED nonCacheVars

NextHealthCache == DoFullRefreshH \/ DoTickToH \/ DoFullCheckNow

SpecHealthCache == Init /\ [][NextHealthCache]_vars

\* the decoder applied to lines
DoCallParseEvent == (\E l \in TextLines : CallParseEvent(l)) /\ UNCHANGED nonCacheVars

NextDecode == DoCallParseEvent

SpecDecode == Init /\ [][NextDecode]_vars

\* the supervisor with the processes it spawns
nonChildVars == <<cacheVars, applied, durable, lockVars, dagVars, enriched,
                  clientVars, healthVars, appVars, daemonVars>>

DoSpawnChild == (\E o \in SpawnOutcomes : SpawnChild(o)) /\ UNCHANGED <<handle, nonChildVars>>
DoChildExits == ChildExits /\ UNCHANGED <<handle, nonChildVars>>
DoReadLineChild ==
    (\E l \in StdoutLines : ReadLineChild(l)) /\ UNCHANGED <<handle, nonChildVars>>
DoEofChild == EofChild /\ UNCHANGED <<handle, nonChildVars>>
DoWaitChild == (\E o \in WaitOutcomes : WaitChild(o)) /\ UNCHANGED <<handle, nonChildVars>>
DoWakeChild == WakeChild /\ UNCHANGED <<handle, nonChildVars>>
DoDropReceiverChild == DropReceiverChild /\ UNCHANGED <<handle, nonChildVars>>
DoAbortChild == AbortChild /\ UNCHANGED nonChildVars

NextChildren ==
    \/ DoSpawnChild \/ DoChildExits \/ DoReadLineChild \/ DoEofChild
    \/ DoWaitChild \/ DoWakeChild \/ DoDropReceiverChild \/ DoAbortChild

SpecChildren == Init /\ [][NextChildren]_vars

\* command handlers, workspace switches and the health checker
nonAppVars == <<cacheVars, streamVars, handle, applied, durable, lockVars, dagVars,
                enriched, clientVars, healthVars, childVars, daemonVars>>

DoHandlerCalled == (\E t \in Tasks : HandlerCalled(t)) /\ UNCHANGED nonAppVars
DoHandlerRuns == (\E t \in Tasks : HandlerRuns(t)) /\ UNCHANGED nonAppVars
DoHandlerReturns ==
    (\E t \in Tasks, timed_out \in BOOLEAN : HandlerReturns(t, timed_out))
    /\ UNCHANGED nonAppVars
DoSwitchWorkspace ==
    (\E t \in Tasks, path \in SwitchPaths : SwitchWorkspace(t, path)) /\ UNCHANGED nonAppVars
DoSwitchBdClient == (\E t \in Tasks : SwitchBdClient(t)) /\ UNCHANGED nonAppVars
DoCheckBd == CheckBd /\ UNCHANGED nonAppVars
DoCommandEnds == (\E c \in running : CommandEnds(c)) /\ UNCHANGED nonAppVars

NextApp ==
    \/ DoHandlerCalled \/ DoHandlerRuns \/ DoHandlerReturns
    \/ DoSwitchWorkspace \/ DoSwitchBdClient \/ DoCheckBd \/ DoCommandEnds

SpecApp == Init /\ [][NextApp]_vars

\* one call of ensure_running; the commands end (default_timeout) and the
\* sleeps return, so the call keeps taking steps
nonDaemonVars == <<cacheVars, streamVars, handle, applied, durable, lockVars, dagVars,
                   enriched, clientVars, healthVars, childVars, appVars>>

DoEnsureRunning == (\E bd_exists \in BOOLEAN : EnsureRunning(bd_exists)) /\ UNCHANGED nonDaemonVars
DoDaemonStatus == (\E o \in DaemonOutcomes : DaemonStatus(o)) /\ UNCHANGED nonDaemonVars
DoDaemonStart == (\E o \in DaemonOutcomes : DaemonStart(o)) /\ UNCHANGED nonDaemonVars
DoPollSocket == (\E exists \in BOOLEAN : PollSocket(exists)) /\ UNCHANGED nonDaemonVars

NextDaemon == DoEnsureRunning \/ DoDaemonStatus \/ DoDaemonStart \/ DoPollSocket

SpecDaemon == Init /\ [][NextDaemon]_vars /\ WF_vars(NextDaemon)

Next == NextCache \/ NextStream

Spec == Init /\ [][Next]_vars

-----------------------------------------------------------------------------
(* Properties of BeadsCache, checked under SpecCache                       *)

DistinctIds(s) == \A i, j \in 1..Len(s) : s[i].id = s[j].id => i = j

IdsOf(s) == {s[i].id : i \in 1..Len(s)}

\* the last element of s with identifier k
LastWithId(s, k) ==
    s[CHOOSE i \in 1..Len(s) : s[i].id = k /\ \A j \in (i + 1)..Len(s) : s[j].id # k]

\* the map holds, under each identifier of the list, the list's (last) element
\* with that identifier, and nothing else
HoldsExactly(m, s) ==
    /\ DOMAIN m = IdsOf(s)
    /\ \A k \in DOMAIN m : m[k] = LastWithId(s, k)
    /\ DistinctIds(s) => Range(m) = SeqRange(s)

\* C1: full_refresh is all-or-nothing: when persisting fails it returns an
\* error and the in-memory issue, gate and epic maps and last_full_sync are
\* what they were before the call; when it succeeds the file holds the new
\* maps and the new timestamp.
C1_AllOrNothing ==
    [][ /\ (ret'.op = "full_refresh" /\ ~ret'.ok)
            => UNCHANGED <<issues, gates, epics, last_full_sync>>
        /\ (ret'.op = "full_refresh" /\ ret'.ok)
            => file' = SerializedCache(issues', gates', epics', last_full_sync')
      ]_vars

\* C2: after a successful full_refresh(items, gates, epics), whatever the
\* store held before, each map holds exactly the given entities keyed by
\* identifier (list_issues is exactly the given set), and is_stale is false.
C2_FullRefreshReplaces ==
    (ret.op = "full_refresh" /\ ret.ok) =>
        /\ HoldsExactly(issues, given.issues)
        /\ HoldsExactly(gates, given.gates)
        /\ HoldsExactly(epics, given.epics)
        /\ DistinctIds(given.issues) => ListIssues = SeqRange(given.issues)
        /\ ~IsStale

\* a successful full refresh of a stale store with one item and no gate or epic
C2_Witness ==
    /\ ret.op = "full_refresh"
    /\ ret.ok
    /\ now > STALE_DURATION
    /\ Len(given.issues) = 1
    /\ given.gates = <<>>

\* C9: after apply_event of an issue.created / issue.updated event whose
\* payload embeds a decodable item X, get_issue(X.id) is exactly X and every
\* other issue entry, all gates and all epics are unchanged.
C9_UpsertByItemId ==
    [][ \A ev \in IssueEvents :
          ( /\ ev.event_type \in {"issue.created", "issue.updated"}
            /\ "issue" \in DOMAIN ev.extra
            /\ IssueDecodes(ev.extra["issue"])
            /\ ApplyEvent(ev) )
          => LET X == IssueFromValue(ev.extra["issue"]) IN
             /\ X.id \in DOMAIN issues'
             /\ issues'[X.id] = X
             /\ \A k \in IssueIds \ {X.id} :
                   /\ (k \in DOMAIN issues') = (k \in DOMAIN issues)
                   /\ k \in DOMAIN issues => issues'[k] = issues[k]
             /\ UNCHANGED <<gates, epics>>
      ]_vars

\* C10: apply_event leaves last_full_sync, the epic map and the persisted file
\* unchanged and never changes the result of is_stale.
C10_ApplyEventFrame ==
    [][ ret'.op = "apply_event"
          => /\ UNCHANGED <<last_full_sync, epics, file>>
             /\ IsStale' = IsStale
      ]_vars

\* an event was applied to a stale store whose file holds other issues than
\* the memory
C10_Witness ==
    /\ ret.op = "apply_event"
    /\ IsStale
    /\ file.kind = "snapshot"
    /\ DOMAIN file.issues # DOMAIN issues
    /\ epics # EmptyMap

-----------------------------------------------------------------------------
(* Properties of apply_event, checked under SpecEvents                     *)

\* the other entries of a map are what they were: every key but k is in the
\* map after the step exactly when it was before, with the same value
OthersUnchanged(before, after, k) ==
    \A x \in ((DOMAIN before) \cup (DOMAIN after)) \ {k} :
        /\ x \in DOMAIN before
        /\ x \in DOMAIN after
        /\ after[x] = before[x]

\* C11: after apply_event of an issue.deleted event for identifier i,
\* get_issue(i) is absent and every other entry is unchanged; when i was not
\* present the call returns success and the whole store is unchanged.
C11_DeleteIssue ==
    [][ \A i \in IssueIds :
          ( /\ ret'.op = "apply_event"
            /\ applied'.event_type = "issue.deleted"
            /\ applied'.issue_id = i )
          => /\ ret'.ok
             /\ GetIssue(i)' = {}
             /\ OthersUnchanged(issues, issues', i)
             /\ UNCHANGED <<gates, epics, last_full_sync, file>>
             /\ GetIssue(i) = {} => UNCHANGED <<issues, gates, epics, last_full_sync, file>>
      ]_vars

\* T1 was deleted from a store that was refreshed with T1 and T2: T2 stays
C11_Witness ==
    /\ ret.op = "apply_event"
    /\ applied.event_type = "issue.deleted"
    /\ applied.issue_id = "T1"
    /\ file.kind = "snapshot"
    /\ DOMAIN file.issues = {"T1", "T2"}
    /\ DOMAIN issues = {"T2"}

RecognisedKinds == {"issue.created", "issue.updated", "issue.deleted",
                    "gate.created", "gate.updated", "gate.deleted"}

\* the event is of no recognised kind, or is a created/updated event whose
\* embedded payload is missing or does not decode
NothingToApply(ev) ==
    \/ ev.event_type \notin RecognisedKinds
    \/ /\ ev.event_type \in {"issue.created", "issue.updated"}
       /\ ("issue" \in DOMAIN ev.extra => ~IssueDecodes(ev.extra["issue"]))
    \/ /\ ev.event_type \in {"gate.created", "gate.updated"}
       /\ ("gate" \in DOMAIN ev.extra => ~GateDecodes(ev.extra["gate"]))

\* C12: apply_event never returns an error; an event of an unrecognised kind,
\* or a created/updated event whose embedded payload is missing or fails to
\* decode, leaves the issue, gate and epic maps exactly unchanged.
C12_ApplyEventTotal ==
    [][ ret'.op = "apply_event"
        => /\ ret'.ok
           /\ NothingToApply(applied') => UNCHANGED <<issues, gates, epics>>
      ]_vars

\* an update of a cached issue arrived with a payload that lacks required
\* fields, and the issue is still cached
C12_Witness ==
    /\ ret.op = "apply_event"
    /\ applied.event_type = "issue.updated"
    /\ applied.issue_id \in DOMAIN issues
    /\ "issue" \in DOMAIN applied.extra
    /\ ~IssueDecodes(applied.extra["issue"])

\* C13: gate.created / gate.updated with a decodable embedded gate G upserts
\* G under its gate identifier, gate.deleted removes the gate with that
\* identifier if present, and in every case the issue map, the epic map and
\* all other gates are unchanged.
C13_GateEvents ==
    [][ /\ ( /\ ret'.op = "apply_event"
              /\ applied'.event_type \in {"gate.created", "gate.updated"}
              /\ "gate" \in DOMAIN applied'.extra
              /\ GateDecodes(applied'.extra["gate"]) )
            => LET G == GateFromValue(applied'.extra["gate"]) IN
               /\ G.id \in DOMAIN gates'
               /\ gates'[G.id] = G
               /\ OthersUnchanged(gates, gates', G.id)
               /\ UNCHANGED <<issues, epics>>
        /\ ( /\ ret'.op = "apply_event"
              /\ applied'.event_type = "gate.deleted"
              /\ applied'.gate_id # None )
            => /\ applied'.gate_id \notin DOMAIN gates'
               /\ OthersUnchanged(gates, gates', applied'.gate_id)
               /\ UNCHANGED <<issues, epics>>
      ]_vars

-----------------------------------------------------------------------------
(* Properties of restarts and staleness, checked under SpecRestart         *)

\* the file is a snapshot whose recorded timestamp is at most 60 s old
InLoadWindow == file.kind = "snapshot" /\ now - file.last_full_sync <= LOAD_MAX_AGE

\* C16: BeadsCache::new never fails because of the snapshot file: with the
\* file missing, unreadable, malformed or recording a timestamp more than
\* 60 s old it succeeds with all three maps empty; the file's contents are
\* loaded only when its timestamp is at most 60 s old.
C16_RehydrateOrEmpty ==
    ret.op = "new" =>
        /\ ret.ok
        /\ IF InLoadWindow
           THEN /\ issues = [k \in DOMAIN file.issues |-> IssueFromValue(file.issues[k])]
                /\ gates  = [k \in DOMAIN file.gates |-> GateFromValue(file.gates[k])]
                /\ epics  = [k \in DOMAIN file.epics |-> EpicFromValue(file.epics[k])]
           ELSE issues = EmptyMap /\ gates = EmptyMap /\ epics = EmptyMap

\* a restart 61 s after the snapshot was written: the file holds an issue,
\* the store starts empty
C16_Witness ==
    /\ ret.op = "new"
    /\ file.kind = "snapshot"
    /\ now - file.last_full_sync = LOAD_MAX_AGE + 1
    /\ file.issues # EmptyMap
    /\ issues = EmptyMap

\* C17: after a successful full_refresh(I, G, E) followed by any apply_event
\* calls, a restart within the load-freshness window rehydrates exactly the
\* maps built from I, G and E: no event applied since is reflected.
C17_ReloadsLastRefresh ==
    (ret.op = "new" /\ InLoadWindow) =>
        /\ HoldsExactly(issues, durable.issues)
        /\ HoldsExactly(gates, durable.gates)
        /\ HoldsExactly(epics, durable.epics)

\* a restart exactly 60 s after a refresh with one issue, with events having
\* changed the maps in between
C17_Witness ==
    /\ ret.op = "new"
    /\ InLoadWindow
    /\ now - file.last_full_sync = LOAD_MAX_AGE
    /\ durable.patched
    /\ Len(durable.issues) = 1

-----------------------------------------------------------------------------
(* Properties of the locked store, checked under SpecLock                  *)

\* positions in which a write operation has begun and not returned
InWrite == {"writing", "saving", "file_open"}

\* C14: full_refresh and apply_event never interleave with each other or
\* with a read: while a write operation runs its task holds the lock alone,
\* so what a reader has read under its guard is the store as it is now (all
\* of it from before or all of it from after each write), and several
\* readers may hold the lock together.
C14_WritesExcludeReads ==
    /\ lock.writer # None => lock.readers = {}
    /\ \A t \in Tasks : tpc[t] \in InWrite <=> lock.writer = t
    /\ \A t \in Tasks : tpc[t] = "reading" <=> t \in lock.readers
    /\ \A t \in Tasks : \A f \in seen[t].fields : seen[t][f] = Store[f]

\* two tasks hold read guards together on a refreshed store and both have
\* read all four fields
C14_Witness ==
    /\ lock.readers = Tasks
    /\ \A t \in Tasks : seen[t].fields = Fields
    /\ issues # EmptyMap
    /\ last_full_sync > 0

\* C15: during full_refresh the write lock is not held across the wait for
\* the disk write unless that write is atomic: no reader waits for the lock
\* while the file is being written, and the file is never partly written
\* while the write is under way (so a crash then leaves no partial snapshot).
C15_NoLockAcrossDiskWrite ==
    \A t \in Tasks :
        (tpc[t] \in {"saving", "file_open"} /\ lock.writer = t)
        => /\ \A r \in Tasks : tpc[r] # "want_read"
           /\ file.kind # "partial"

-----------------------------------------------------------------------------
(* Properties of ActivityStream, checked under SpecStream                  *)

RECURSIVE Pow2(_)
Pow2(n) == IF n = 0 THEN 1 ELSE 2 * Pow2(n - 1)

IsPrefix(s, t) == Len(s) <= Len(t) /\ SubSeq(t, 1, Len(s)) = s

\* the events of the lines of s
Decoded(s) == [i \in 1..Len(s) |-> ParseEvent(Trim(s[i]))]

\* C3: when forwarding an event fails because the consumer is gone, the
\* supervisor stops: no backoff wait follows and no child is spawned again.
C3_ConsumerGoneStops ==
    result.why = "channel_closed" => pc = "stopped"

\* C4: the delay waited after the k-th failed run cycle is min(2^(k-1), 30)
\* seconds, whatever happened in the run cycles between the failures.
C4_BackoffSequence ==
    /\ Len(delays) = consecutive_errors
    /\ \A k \in 1..Len(delays) : delays[k] = Min(Pow2(k - 1), MAX_BACKOFF)
    /\ \A k \in 2..Len(delays) : delays[k] >= delays[k - 1]

\* the seventh failure came after events were forwarded and received
C4_Witness ==
    /\ Len(delays) = 7
    /\ delays[7] = MAX_BACKOFF
    /\ Len(received) > 0

\* C5: the supervisor stops once more than 10 run cycles have failed: the 11th
\* failure ends the task, a 12th run cycle is never started, and 10 or fewer
\* failures never stop it for this reason.
C5_ErrorCeiling ==
    /\ cycles <= MAX_CONSECUTIVE_ERRORS + 1
    /\ consecutive_errors <= MAX_CONSECUTIVE_ERRORS + 1
    /\ (consecutive_errors = MAX_CONSECUTIVE_ERRORS + 1) => pc \in {"sleeping", "stopped"}
    /\ (pc = "stopped" /\ ~result.ok) => consecutive_errors = MAX_CONSECUTIVE_ERRORS + 1

\* the task has ended on its eleventh failure
C5_Witness ==
    /\ pc = "stopped"
    /\ ~result.ok
    /\ consecutive_errors = MAX_CONSECUTIVE_ERRORS + 1
    /\ cycles = MAX_CONSECUTIVE_ERRORS + 1

ProcessErrors == {"exit_nonzero", "timeout", "spawn_fails", "stdio_missing"}

\* C6: a child that exits with code 0 stops the supervisor for good; a
\* non-zero exit, an exit not collected in time, a failed spawn or missing
\* stdio end the run cycle as an error, after which the supervisor waits the
\* backoff and starts a new run cycle while the ceiling is not exceeded.
C6_ExitHandling ==
    /\ [](/\ result.why = "exit_zero" => (result.ok /\ pc = "stopped")
          /\ result.why \in ProcessErrors =>
                (~result.ok /\ (pc = "stopped" => TooManyErrors(consecutive_errors))))
    /\ [][ /\ (pc \in {"loop", "waiting"} /\ pc' \notin {"loop", "waiting", "reading"})
               => /\ result'.why = "exit_zero" => pc' = "stopped"
                  /\ result'.why \in ProcessErrors
                        => (pc' = "sleeping" /\ delays' = Append(delays, backoff))
           /\ (pc = "sleeping" /\ pc' # "sleeping" /\ ~TooManyErrors(consecutive_errors))
               => pc' = "loop"
           /\ (pc = "loop" /\ pc' # "loop") => cycles' = cycles + 1
           /\ pc = "stopped" => (pc' = "stopped" /\ cycles' = cycles /\ child' = "none")
         ]_vars

\* a new run cycle is reading after the previous child exited with a
\* non-zero code
C6_Witness ==
    /\ result.why = "exit_nonzero"
    /\ pc = "reading"
    /\ cycles = 2
    /\ delays = <<INITIAL_BACKOFF>>

\* C7: a run cycle is aborted for parse errors exactly when more than 100
\* non-blank lines failed to decode with no forwarded event between them:
\* the 101st aborts, earlier ones leave the cycle reading.
C7_ParseErrorCeiling ==
    /\ bad_run <= MAX_PARSE_ERRORS + 1
    /\ (bad_run > MAX_PARSE_ERRORS)
         <=> (result.why = "parse_errors" /\ pc \in {"sleeping", "loop", "stopped"})
    /\ pc = "reading" => parse_errors = bad_run

\* a run cycle that forwarded events was aborted on its 101st undecodable line
C7_Witness ==
    /\ result.why = "parse_errors"
    /\ pc = "sleeping"
    /\ bad_run = MAX_PARSE_ERRORS + 1
    /\ Len(received) + Len(queue) > 0

\* C8: the events the consumer gets are the decodable non-blank stdout lines
\* in read order, each once; blank, undecodable and stderr lines give none.
C8_ForwardInOrder ==
    /\ IsPrefix(received \o queue, Decoded(read_log))
    /\ rx_open => received \o queue = Decoded(read_log)

\* two different events were received in read order, with undecodable lines
\* read after them in the same run cycle
C8_Witness ==
    /\ Len(received) = 2
    /\ received[1] # received[2]
    /\ child = "running"
    /\ parse_errors > 0

-----------------------------------------------------------------------------
(* Properties of the supervisor's JoinHandle, checked under SpecCancel     *)

\* C19: once the JoinHandle that start() returned is dropped, or the task is
\* cancelled otherwise, the stream is stopped and the child process is
\* terminated: no child of the supervisor runs, none is spawned and no
\* further event is sent.
C19_DropStops ==
    /\ [](handle # "held" => child = "none")
    /\ [][handle # "held" => (Len(queue') <= Len(queue) /\ cycles' = cycles)]_vars

-----------------------------------------------------------------------------
(* Properties of DagBuilder, checked under SpecDag                         *)

\* the item carries a grouping reference equal to G under field name f
RefersTo(issue, f, G) == f \in DOMAIN issue.extra /\ issue.extra[f] = JStr(G)

\* an item is in scope of grouping G when it is G's own item (its identifier
\* is G and its type tag is the grouping type) or carries a grouping
\* reference equal to G under epic_id or under parent
InScope(issue, G) ==
    \/ issue.id = G /\ issue.issue_type = "Epic"
    \/ RefersTo(issue, "epic_id", G)
    \/ RefersTo(issue, "parent", G)

\* the dependency value is a reference to identifier id: the bare identifier,
\* or an object whose id field is it
IsRefTo(v, id) == v = JStr(id) \/ (v.kind = "object" /\ "id" \in DOMAIN v.obj /\ v.obj["id"] = JStr(id))

\* how many of the item's dependency references resolve to identifier id
RefCount(issue, id) ==
    Cardinality({i \in 1..Len(issue.dependencies) : IsRefTo(issue.dependencies[i], id)})

\* how many Blocks edges the graph has from s to t
EdgeCount(g, s, t) ==
    Cardinality({i \in 1..Len(g.edges) : g.edges[i] = BlocksEdge(s, t)})

\* every identifier a snapshot or a reference may name
AllIds == {"T1", "T2", "T9", "E1", "E2", "D0", "D1", "D2", "D3", "G1"}

\* the dependency edges of the graph are those of the items for which the
\* predicate Scoped holds: one per reference to a cached issue, no other
DependencyEdges(Scoped(_)) ==
    \A t \in DOMAIN builder.issues : \A s \in AllIds :
        EdgeCount(graph, s, t) =
            IF Scoped(builder.issues[t]) /\ s \in DOMAIN builder.issues
            THEN RefCount(builder.issues[t], s)
            ELSE 0

\* C20: build_dag(G) emits, for each item in scope of G and each of its
\* dependency references that resolves to an identifier of the snapshot's
\* issue map, exactly one Blocks edge from the dependency to the item, and no
\* other dependency edge (so both endpoints of a dependency edge are cached
\* issues); the diamond of 4 items gives 4 nodes and 4 edges.
C20_DependencyEdges ==
    graph.epic_id # None =>
        LET Scoped(issue) == InScope(issue, graph.epic_id) IN
        /\ DependencyEdges(Scoped)
        /\ (builder = Diamond /\ graph.epic_id = "E1")
              => (Len(graph.nodes) = 4 /\ Len(graph.edges) = 4)

\* the same with the items build_dag itself selects (epic_issues): this holds
DependencyEdgesOfSelected ==
    graph.epic_id # None =>
        LET Scoped(issue) == InEpicIssues(builder, issue, graph.epic_id) IN
        /\ DependencyEdges(Scoped)
        /\ (builder = Diamond /\ graph.epic_id = "E1")
              => (Len(graph.nodes) = 4 /\ Len(graph.edges) = 4)

\* the identifiers of the nodes build_dag pushed in its loop over epic_issues:
\* the issue nodes that follow the node of the grouping's own item
SelectedIds(g, b) ==
    LET first == IF g.epic_id \in DOMAIN b.issues THEN 2 ELSE 1 IN
    {g.nodes[i].id : i \in first..Len(g.nodes)} \cap DOMAIN b.issues

\* C21: an item is in scope of grouping G (build_dag(G) selects it) exactly
\* when its identifier is G and its type tag is the grouping type, or its
\* field bag carries a grouping reference equal to G under epic_id or under
\* parent; an item whose parent equals G is in scope whatever its epic_id holds.
C21_InScope ==
    graph.epic_id # None =>
        \A k \in DOMAIN builder.issues :
            k \in SelectedIds(graph, builder) <=> InScope(builder.issues[k], graph.epic_id)

\* the same for the items whose epic_id field is no string or agrees with
\* their parent field: this holds
InScopeUnlessEpicIdDiffers ==
    graph.epic_id # None =>
        \A k \in DOMAIN builder.issues :
            LET issue == builder.issues[k] IN
            ~(/\ "epic_id" \in DOMAIN issue.extra
              /\ AsStr(issue.extra["epic_id"]) # {}
              /\ "parent" \in DOMAIN issue.extra
              /\ issue.extra["parent"] # issue.extra["epic_id"])
            => (k \in SelectedIds(graph, builder) <=> InScope(issue, graph.epic_id))

-----------------------------------------------------------------------------
(* Properties of the gates of a graph, checked under SpecDagGates          *)

\* how many nodes of the graph are the Gate-kind node of the gate, titled
\* "Gate: " + gate kind
GateNodeCount(g, gate) ==
    Cardinality({i \in 1..Len(g.nodes) :
        /\ g.nodes[i].id = gate.id
        /\ g.nodes[i].node_type = "Gate"
        /\ g.nodes[i].title = <<"Gate: ", gate.gate_type>>})

\* how many nodes of the graph carry the identifier
NodeCount(g, id) == Cardinality({i \in 1..Len(g.nodes) : g.nodes[i].id = id})

\* how many edges of the graph end in the identifier
InEdgeCount(g, id) == Cardinality({i \in 1..Len(g.edges) : g.edges[i].target = id})

\* the gates of the graph are those whose owner is cached and Scoped: one node
\* and one edge from the owner each, nothing for the other gates
GateNodesAndEdges(Scoped(_)) ==
    \A k \in DOMAIN builder.gates :
        LET gate == builder.gates[k]
            n    == IF /\ gate.issue_id \in DOMAIN builder.issues
                       /\ Scoped(builder.issues[gate.issue_id])
                    THEN 1 ELSE 0
        IN  /\ GateNodeCount(graph, gate) = n
            /\ NodeCount(graph, gate.id) = n
            /\ EdgeCount(graph, gate.issue_id, gate.id) = n
            /\ InEdgeCount(graph, gate.id) = n

\* C22: for every gate whose owning item is in scope of the grouping (the
\* grouping's own item included) build_dag adds exactly one Gate-kind node
\* titled "Gate: " + gate kind and exactly one edge from the owner to the gate;
\* a gate whose owner is not cached or is out of scope adds neither.
C22_GateNodes ==
    graph.epic_id # None =>
        LET Scoped(issue) == InScope(issue, graph.epic_id) IN GateNodesAndEdges(Scoped)

\* the same with the owners is_issue_in_epic accepts: this holds
GateNodesOfAccepted ==
    graph.epic_id # None =>
        LET Scoped(issue) == IsIssueInEpic(builder, issue, graph.epic_id) IN
        GateNodesAndEdges(Scoped)

-----------------------------------------------------------------------------
(* Properties of get_dag, checked under SpecGetDag                         *)

\* the maps hold no item of grouping G: none in scope of G, none with
\* identifier G
NoMatchingItems(m, G) == \A k \in DOMAIN m : k # G /\ ~InScope(m[k], G)

\* build_dag gives a grouping with no matching items the empty graph
EmptyGraphFromBuildDag ==
    (graph.epic_id # None /\ NoMatchingItems(builder.issues, graph.epic_id))
        => (graph.nodes = <<>> /\ graph.edges = <<>>)

\* C23: asking for the graph of a grouping with no matching items yields an
\* empty graph (no nodes, no edges) and no error: from build_dag, from the
\* cache's get_dag and from the get_dag command.
C23_EmptyGraph ==
    /\ EmptyGraphFromBuildDag
    /\ (ret.op \in {"get_dag", "get_dag_command"} /\ NoMatchingItems(issues, ret.epic_id))
          => /\ ret.ok
             /\ ret.op = "get_dag" => ret.some
             /\ ret.dag.nodes = <<>>
             /\ ret.dag.edges = <<>>

-----------------------------------------------------------------------------
(* Properties of enrich_with_sessions, checked under SpecEnrich            *)

\* the fields of a DagNode that are not session fields
NodeFields == {"id", "title", "node_type", "status", "assignee"}

\* C24: enrich_with_sessions changes only the session_id and task_status of
\* the nodes whose identifier is a key of the given map, setting them to the
\* mapped values; every other field of those nodes, every node not in the
\* map, the number and order of the nodes and all edges are unchanged.
C24_EnrichFrame ==
    enriched.of.epic_id # None =>
        LET a == enriched.of
            b == enriched.graph
            m == enriched.task_sessions
        IN  /\ Len(b.nodes) = Len(a.nodes)
            /\ b.edges = a.edges
            /\ \A i \in 1..Len(a.nodes) :
                  /\ DOMAIN b.nodes[i] = DOMAIN a.nodes[i]
                  /\ \A f \in NodeFields : b.nodes[i][f] = a.nodes[i][f]
                  /\ IF a.nodes[i].id \in DOMAIN m
                     THEN /\ b.nodes[i].session_id = m[a.nodes[i].id].session_id
                          /\ b.nodes[i].task_status = m[a.nodes[i].id].task_status
                     ELSE b.nodes[i] = a.nodes[i]

\* a graph with edges and session fields from an earlier enrichment was
\* enriched by a map that names one of its nodes, not all, and a key that is
\* no node
C24_Witness ==
    /\ enriched.of.epic_id # None
    /\ enriched.of.edges # <<>>
    /\ "T9" \in DOMAIN enriched.task_sessions
    /\ \E i, j \in 1..Len(enriched.of.nodes) :
          /\ enriched.of.nodes[i].id \in DOMAIN enriched.task_sessions
          /\ enriched.graph.nodes[i] # enriched.of.nodes[i]
          /\ enriched.of.nodes[j].id \notin DOMAIN enriched.task_sessions
          /\ enriched.of.nodes[j].session_id # None

-----------------------------------------------------------------------------
(* Properties of the node kinds, checked under SpecDagLabels               *)

\* the label, compared case-insensitively, contains the literal
Mentions(label, name) == Contains(ToLowercase(label), Literal(name))

\* the label matches: it mentions review, gate or pm validation
Matches(label) ==
    \E name \in {"review", "gate", "pm-validation", "pm validation"} : Mentions(label, name)

\* the kind a matching label gives: review before gate before pm validation
KindOfLabel(label) ==
    IF Mentions(label, "review") THEN "Review"
    ELSE IF Mentions(label, "gate") THEN "Gate"
    ELSE "PmValidation"

\* the kind of an item: that of its first matching label; without one, that
\* of its type tag; else Task
KindOf(issue) ==
    IF \E i \in 1..Len(issue.labels) : Matches(issue.labels[i])
    THEN KindOfLabel(issue.labels[CHOOSE i \in 1..Len(issue.labels) :
                        /\ Matches(issue.labels[i])
                        /\ \A j \in 1..(i - 1) : ~Matches(issue.labels[j])])
    ELSE IF issue.issue_type = "Epic" THEN "Epic"
    ELSE IF issue.issue_type = "Gate" THEN "Gate"
    ELSE "Task"

\* the position of the grouping's own node, 0 when the graph has none
EpicNodeAt(g, b) == IF g.epic_id \in DOMAIN b.issues THEN 1 ELSE 0

-----------------------------------------------------------------------------
(* Properties of the reads, checked under SpecReads                        *)

\* two characters are the same but for their case
SameIgnoringCase(c, d) == ToLowerChar(c) = ToLowerChar(d)

\* q occurs in s at some offset, case ignored
OccursIgnoringCase(s, q) ==
    \E off \in 0..(Len(s) - Len(q)) : \A i \in 1..Len(q) : SameIgnoringCase(s[off + i], q[i])

\* s is the word w, case ignored
EqualIgnoringCase(s, w) ==
    Len(s) = Len(w) /\ \A i \in 1..Len(w) : SameIgnoringCase(s[i], w[i])

\* the elements of the sequence are distinct
NoRepeats(v) == \A i, j \in 1..Len(v) : v[i] = v[j] => i = j

\* C26: search_issues(q) returns exactly the cached items whose title or
\* status contains q, compared case-insensitively (every item for the empty
\* query, none when nothing matches), each at most once, and leaves the store
\* unchanged.
C26_SearchIssues ==
    /\ [](ret.op = "search_issues" =>
            /\ SeqRange(ret.value) =
                  {issues[k] : k \in {x \in DOMAIN issues :
                                        \/ OccursIgnoringCase(issues[x].title, ret.query)
                                        \/ OccursIgnoringCase(issues[x].status, ret.query)}}
            /\ NoRepeats(ret.value)
            /\ ret.query = <<>> => Len(ret.value) = Cardinality(DOMAIN issues))
    /\ [][ret'.op = "search_issues" =>
            UNCHANGED <<issues, gates, epics, last_full_sync, file>>]_vars

\* a search in upper case found two of the three cached items, one by a
\* title in mixed case
C26_Witness ==
    /\ ret.op = "search_issues"
    /\ ret.query = W_BUG
    /\ Len(ret.value) = 2
    /\ Cardinality(DOMAIN issues) = 3
    /\ \E i \in 1..2 : ret.value[i].title = W_Debug

\* the cached gates that wait for a human: status "pending" or "blocked"
WaitingGates == {k \in DOMAIN gates : gates[k].status \in {"pending", "blocked"}}

\* C27: get_pending_gates returns exactly the cached gates whose status is
\* "pending" or "blocked" and no other gate, and the pending_gates count of
\* get_stats equals the number of gates get_pending_gates returns on the same
\* store state.
C27_PendingGates ==
    /\ ret.op = "get_pending_gates" =>
          /\ SeqRange(ret.value) = {gates[k] : k \in WaitingGates}
          /\ Len(ret.value) = Cardinality(WaitingGates)
    /\ ret.op = "get_stats" => ret.value.pending_gates = Cardinality(WaitingGates)

\* of two cached gates only the blocked one was returned
C27_Witness ==
    /\ ret.op = "get_pending_gates"
    /\ Len(ret.value) = 1
    /\ ret.value[1].status = "blocked"
    /\ Cardinality(DOMAIN gates) = 2

\* the bucket of a status, compared case-insensitively
BucketOf(status) ==
    {b \in {"open", "in_progress", "closed", "blocked"} :
        \E w \in (CASE b = "open"        -> OpenWords
                     [] b = "in_progress" -> InProgressWords
                     [] b = "closed"      -> ClosedWords
                     [] b = "blocked"     -> BlockedWords) : EqualIgnoringCase(status, w)}

\* the cached items in bucket b
InBucket(b) == {k \in DOMAIN issues : b \in BucketOf(issues[k].status)}

\* the cached items whose status is in no bucket
Uncategorized == {k \in DOMAIN issues : BucketOf(issues[k].status) = {}}

\* C28: get_stats counts every cached item in exactly one status bucket,
\* matching the status case-insensitively: total_issues is the number of
\* cached items, an item with an unrecognised status is counted in none of
\* open, in_progress, closed and blocked, so their sum is at most
\* total_issues, with equality exactly when no item is uncategorized.
C28_StatsBuckets ==
    ret.op = "get_stats" =>
        LET v   == ret.value
            sum == v.open + v.in_progress + v.closed + v.blocked
        IN  /\ v.total_issues = Cardinality(DOMAIN issues)
            /\ \A k \in DOMAIN issues : Cardinality(BucketOf(issues[k].status)) <= 1
            /\ v.open = Cardinality(InBucket("open"))
            /\ v.in_progress = Cardinality(InBucket("in_progress"))
            /\ v.closed = Cardinality(InBucket("closed"))
            /\ v.blocked = Cardinality(InBucket("blocked"))
            /\ sum + Cardinality(Uncategorized) = v.total_issues
            /\ sum <= v.total_issues
            /\ sum = v.total_issues <=> Uncategorized = {}

\* statistics of a store with an item that is blocked, one done and one of
\* unknown status, their statuses in mixed and upper case
C28_Witness ==
    /\ ret.op = "get_stats"
    /\ ret.value.total_issues = 3
    /\ ret.value.blocked = 1
    /\ ret.value.closed = 1
    /\ ret.value.open = 0
    /\ ret.value.in_progress = 0
    /\ Uncategorized = {"T1"}

-----------------------------------------------------------------------------
(* Properties of BdClient, checked under SpecClient                        *)

\* the write commands that are executing
WritesExecuting == {p \in procs : p.write}

\* C29: write operations issued through a BdClient are serialized: at no
\* time are two write commands of the client, or of its clones, executing
\* concurrently, while read commands are not limited by the write lock.
C29_WritesSerialized ==
    /\ Cardinality(WritesExecuting) <= 1
    /\ \A t \in Tasks : cpc[t] = "idle" => ENABLED RunBdJson(t)

\* the permit serializes the write commands that are awaited: at most one
\* task is inside run_bd_json for a write, and it holds the permit; this holds
AwaitedWritesSerialized ==
    /\ Cardinality({p \in procs : p.write /\ p.awaited}) <= 1
    /\ Cardinality({t \in Tasks : cpc[t] = "writing"}) = 1 - permits
    /\ \A t \in Tasks : cpc[t] = "idle" => ENABLED RunBdJson(t)

-----------------------------------------------------------------------------
(* Properties of the health monitor, checked under SpecHealth              *)

\* two checks observed the same bd availability, version, daemon state,
\* cache age and cache staleness
SameObservation(a, b) ==
    /\ a.bd_available = b.bd_available
    /\ a.bd_version = b.bd_version
    /\ a.daemon_running = b.daemon_running
    /\ a.cache_age_secs = b.cache_age_secs
    /\ a.cache_stale = b.cache_stale

\* C30: the monitor emits HealthChanged on a tick only if the health status
\* changed: when two consecutive checks observe the same bd availability,
\* version, daemon state, cache age and cache staleness, no event is emitted
\* for the second check.
C30_EmitOnlyOnChange ==
    \A i \in 2..Len(checks) :
        SameObservation(checks[i - 1].health, checks[i].health) => ~checks[i].emitted

\* what the monitor does: every check emits, because the instants of two
\* checks differ; this holds
EmitsOnEveryCheck ==
    /\ \A i \in 1..Len(checks) : checks[i].emitted
    /\ checks # <<>> => last_known_health = {checks[Len(checks)].health}

-----------------------------------------------------------------------------
(* Properties of the health checker, checked under SpecHealthCache         *)

\* seconds since the cache's last full sync
CacheAge == now - last_full_sync

\* C31: full_check reports cache_age_secs as the number of seconds since the
\* cache's last full sync, and cache_stale = TRUE whenever that age exceeds
\* MAX_CACHE_AGE_SECS.
C31_CacheStaleness ==
    ret.op = "full_check" =>
        /\ ret.value.cache_age_secs = {CacheAge}
        /\ CacheAge > MAX_CACHE_AGE_SECS => ret.value.cache_stale

\* what full_check reports: never an age and never stale, however old the
\* cache is; this holds
CacheAgeNeverReported ==
    ret.op = "full_check" => ret.value.cache_age_secs = {} /\ ~ret.value.cache_stale

\* a full_check made when the cache is older than MAX_CACHE_AGE_SECS
FullCheckOfOldCache == ret.op = "full_check" /\ CacheAge > MAX_CACHE_AGE_SECS

-----------------------------------------------------------------------------
(* Properties of the event decoder, checked under SpecDecode               *)

\* a line that is a well-formed event record: a JSON object whose event kind
\* and timestamp are present as strings and whose related identifiers, where
\* present, are strings or null
WellFormedRecord(l) ==
    /\ l.syntax = "json"
    /\ l.doc.kind = "object"
    /\ \A k \in {"event_type", "timestamp"} :
          k \in DOMAIN l.doc.obj /\ l.doc.obj[k].kind = "string"
    /\ \A k \in {"issue_id", "gate_id"} :
          k \in DOMAIN l.doc.obj => l.doc.obj[k].kind \in {"string", "null"}

\* the related identifier a record carries under k
RelatedId(o, k) ==
    IF k \in DOMAIN o /\ o[k].kind = "string" THEN o[k].str ELSE None

\* the event keeps the record's kind, related identifiers, timestamp and
\* remaining fields
Preserves(ev, o) ==
    /\ ev.event_type = o["event_type"].str
    /\ ev.timestamp = o["timestamp"].str
    /\ ev.issue_id = RelatedId(o, "issue_id")
    /\ ev.gate_id = RelatedId(o, "gate_id")
    /\ DOMAIN ev.extra = (DOMAIN o) \ {"event_type", "issue_id", "gate_id", "timestamp"}
    /\ \A k \in DOMAIN ev.extra : ev.extra[k] = o[k]

DecoderResult ==
    ret.op = "parse_event" =>
        /\ ret.value = ParseEventLine(ret.line)
        /\ IF WellFormedRecord(ret.line)
           THEN ret.ok /\ Preserves(ret.value.event, ret.line.doc.obj)
           ELSE ~ret.ok /\ ret.value.ParseError.input = ret.line

\* C32: the event decoder is a total, deterministic function: on every line
\* that is a well-formed event record it succeeds and preserves the kind, the
\* related issue and gate identifiers, the timestamp and the remaining fields;
\* on every other line it fails with a parse error whose message contains the
\* input; and it has no side effect.
C32_Decoder ==
    /\ []DecoderResult
    /\ [][ret'.op = "parse_event" => UNCHANGED <<storeVars, nonCacheVars>>]_vars

\* a record surrounded by white space, with a null related identifier and a
\* further field, was decoded
C32_Witness ==
    /\ ret.op = "parse_event"
    /\ ret.ok
    /\ ret.line.pad
    /\ "issue_id" \in DOMAIN ret.line.doc.obj
    /\ ret.line.doc.obj["issue_id"] = JNull
    /\ "actor" \in DOMAIN ret.value.event.extra

-----------------------------------------------------------------------------
(* Keys of the store's maps, checked under SpecCache                       *)

\* C33: in every reachable store state each map key equals the identifier of
\* the entity stored under it: issues[k].id = k for every k in issues and
\* gates[k].id = k for every k in gates.
C33_KeysAreIds ==
    /\ \A k \in DOMAIN issues : issues[k].id = k
    /\ \A k \in DOMAIN gates : gates[k].id = k

\* full_refresh and a rehydration leave every key equal to the identifier
\* stored under it; this holds
KeysAreIdsAfterRefresh ==
    [][ret'.op \in {"full_refresh", "new"} => C33_KeysAreIds']_vars

-----------------------------------------------------------------------------
(* Shape of the graph, checked under SpecDag                               *)

NodeIds(g) == {g.nodes[i].id : i \in 1..Len(g.nodes)}

\* C34: in every graph returned by build_dag node identifiers are unique; in
\* particular the grouping's own item appears exactly once when it exists in
\* the snapshot.
C34_UniqueNodeIds ==
    graph.epic_id # None =>
        /\ \A id \in NodeIds(graph) : NodeCount(graph, id) = 1
        /\ graph.epic_id \in DOMAIN builder.issues => NodeCount(graph, graph.epic_id) = 1

\* what build_dag gives: every other identifier once, and the grouping's own
\* item twice when the filter of epic_issues selects it too; this holds
UniqueButEpicNode ==
    graph.epic_id # None =>
        /\ \A id \in NodeIds(graph) \ {graph.epic_id} : NodeCount(graph, id) = 1
        /\ graph.epic_id \in DOMAIN builder.issues =>
              NodeCount(graph, graph.epic_id) =
                  IF InEpicIssues(builder, builder.issues[graph.epic_id], graph.epic_id)
                  THEN 2 ELSE 1


\* C35: every graph returned by build_dag is closed: the source and the
\* target of every edge are identifiers of nodes of the same graph, also when
\* an in-scope item depends on a known item that belongs to another grouping.
C35_ClosedGraph ==
    graph.epic_id # None =>
        \A i \in 1..Len(graph.edges) :
            /\ graph.edges[i].source \in NodeIds(graph)
            /\ graph.edges[i].target \in NodeIds(graph)

\* what build_dag gives: every edge ends at a node of the graph and starts at
\* an item of the snapshot, in the graph or not; this holds
EdgesFromKnownItems ==
    graph.epic_id # None =>
        \A i \in 1..Len(graph.edges) :
            /\ graph.edges[i].source \in DOMAIN builder.issues
            /\ graph.edges[i].target \in NodeIds(graph)

-----------------------------------------------------------------------------
(* Child processes of the supervisor, checked under SpecChildren           *)

\* C36: at most one child process spawned by a supervisor is alive at any
\* time: the child of a run cycle has exited or been killed before the backoff
\* wait begins and before the next child is spawned, and no child is alive
\* once the supervisor task has ended, on every exit path of a run cycle.
C36_OneChild ==
    /\ Cardinality(alive) <= 1
    /\ pc \in {"sleeping", "loop", "stopped", "cancelled"} => alive = {}
    /\ alive \subseteq {cycles}

\* a run cycle ended by the exit-wait timeout, with its child alive until
\* then, and the supervisor is in its backoff wait
C36_Witness ==
    /\ pc = "sleeping"
    /\ result.why = "timeout"
    /\ cycles >= 2
    /\ alive = {}

-----------------------------------------------------------------------------
(* A child ended by a signal, checked under SpecStream                     *)

\* C37: a child process that ends without an exit code (terminated by a
\* signal) is treated as a crash: the run cycle ends as an error and the
\* supervisor restarts the process after the backoff wait, rather than
\* stopping as for a clean exit.
C37_SignalIsCrash ==
    result.why = "exit_signal" =>
        /\ ~result.ok
        /\ pc = "stopped" => TooManyErrors(consecutive_errors)

\* what the supervisor does: a child ended by a signal ends the run cycle
\* with Ok, and the supervisor stops for good; this holds
SignalExitStops ==
    result.why = "exit_signal" => result.ok /\ pc = "stopped"

-----------------------------------------------------------------------------
(* The full-sync time across a restart, checked under SpecRestart          *)

\* the store has just been rehydrated from the file
Rehydrated == ret.op = "new" /\ LoadFromDiskOk

\* C38: the last-full-sync time survives a restart: a store rehydrated from a
\* file whose recorded timestamp is T measures its age from T, so is_stale()
\* after the load is true exactly when more than 30 seconds have elapsed
\* since T (a file between 30 and 60 seconds old loads as stale).
C38_SyncTimeSurvives ==
    Rehydrated =>
        /\ last_full_sync = file.last_full_sync
        /\ IsStale <=> now - file.last_full_sync > STALE_DURATION

\* what the store does: a rehydrated store counts its age from the instant
\* of the load and is not stale then, whatever the file's timestamp; this holds
AgeCountedFromLoad ==
    Rehydrated => last_full_sync = now /\ ~IsStale

\* a store rehydrated from a file more than 30 seconds old
RehydratedFromOldFile == Rehydrated /\ now - file.last_full_sync > STALE_DURATION

-----------------------------------------------------------------------------
(* Workspace switches, checked under SpecApp                               *)

\* C39: after switch_workspace(path) returns success, every bd command
\* started afterwards, the daemon-status queries of the health checker
\* included, runs against the new workspace; the switch waits for commands
\* already in flight, and no command runs against the old workspace once it
\* has completed.
C39_SwitchWorkspace ==
    switched.to # None =>
        /\ \A c \in switched.since : c.workspace = switched.to
        /\ \A c \in running : c.workspace = switched.to

\* what holds: the handlers' commands started after a switch run against the
\* new workspace, and the switch has waited for the handlers' commands that
\* are awaited
HandlersFollowSwitch ==
    switched.to # None =>
        /\ \A c \in switched.since : c.by # "health" => c.workspace = switched.to
        /\ \A c \in running : (c.by # "health" /\ c.awaited) => c.workspace = switched.to
        /\ bd_client = switched.to

-----------------------------------------------------------------------------
(* ensure_running, checked under SpecDaemon                                *)

MaxPolls == DAEMON_START_TIMEOUT \div POLL_INTERVAL

\* the start reported running and the socket was seen within the window
StartedAndReady ==
    /\ dm.start = "running"
    /\ dm.polls \in 1..MaxPolls
    /\ dm.elapsed < DAEMON_START_TIMEOUT

\* as stated: success without a start when the daemon is reported running;
\* otherwise exactly one start, success only when the start reports running
\* and the socket appears in time, and a daemon error in every other case
EnsureRunningResult ==
    dm.pc = "returned" =>
        IF dm.status = "running"
        THEN dm.result.ok /\ dm.starts = 0
        ELSE /\ dm.starts = 1
             /\ dm.result.ok <=> StartedAndReady
             /\ ~dm.result.ok => dm.result.error = "DaemonError"

\* C40 as stated: ensure_running always terminates, with the result above.
C40_EnsureRunningAsStated == []EnsureRunningResult /\ <>(dm.pc = "returned")

\* the result ensure_running gives: an error of the client (binary not found,
\* or a failed status or start command) is returned as it is, and no start is
\* issued unless the status command reported the daemon not running
EnsureRunningResultAmended ==
    dm.pc = "returned" =>
        /\ dm.polls <= MaxPolls
        /\ CASE dm.status = None ->
                  dm.result = [ok |-> FALSE, error |-> "CliNotFound"] /\ dm.starts = 0
             [] dm.status = "running" ->
                  dm.result.ok /\ dm.starts = 0
             [] dm.status \in ClientErrors ->
                  dm.result = [ok |-> FALSE, error |-> dm.status] /\ dm.starts = 0
             [] dm.status = "not_running" ->
                  /\ dm.starts = 1
                  /\ dm.result.ok <=> StartedAndReady
                  /\ ~dm.result.ok =>
                        dm.result.error = IF dm.start \in ClientErrors THEN dm.start
                                          ELSE "DaemonError"

\* C40 amended: ensure_running always terminates; if the daemon is reported
\* running it returns success without issuing a start; if the bd binary is
\* missing or the status command fails it returns that error without issuing
\* a start; otherwise it issues exactly one start and returns success only if
\* the start reports running and the socket appears within the 30-second
\* window (at most 300 polls of 100 ms), the start command's own error if it
\* fails, and a daemon error in the remaining cases.
C40_EnsureRunning == []EnsureRunningResultAmended /\ <>(dm.pc = "returned")

\* the socket never appeared: the call returned the daemon error after 300
\* polls
C40_Witness ==
    /\ dm.pc = "returned"
    /\ dm.polls = MaxPolls
    /\ dm.elapsed = DAEMON_START_TIMEOUT
    /\ dm.result = [ok |-> FALSE, error |-> "DaemonError"]

====
